---- MODULE Spec2Model ----
(***************************************************************************)
(* Model of the PDF-to-question pipeline of the trade-license CBT program: *)
(* services/pdf_parser.py and models/question_model.py.                    *)
(*                                                                         *)
(* Python strings are sequences of characters, each written as a token.    *)
(* The alphabet of the model:                                              *)
(*   whitespace     " " (blank), "\n" (line feed), "\t" (tab) and "x1f"    *)
(*                  (U+001F, whitespace to Python, not printable)          *)
(*   decimal digits "0".."9", and the digits of three other scripts:       *)
(*                  "ar0".."ar9" (Arabic-Indic, U+0660..U+0669),           *)
(*                  "fw0".."fw9" (fullwidth, U+FF10..U+FF19),              *)
(*                  "dv0".."dv9" (Devanagari, U+0966..U+096F)              *)
(*   other digits   "c1".."c10" (circled glyphs U+2460..U+2469) and        *)
(*                  "sup2" (superscript two, U+00B2)                       *)
(*   cased letters  "A".."Z" and "a".."z"; "A_uml", "E_acute", "Zhe",      *)
(*                  "fwA" (U+00C4, U+00C9, U+0416, U+FF21) with their      *)
(*                  lower-case forms "a_uml", "e_acute", "zhe", "fwa";     *)
(*                  "Sigma", "sigma", "fsigma" (U+03A3, U+03C3, U+03C2)    *)
(*   not printable  "x00" (U+0000), and "x1f", "\n", "\t" above            *)
(*   punctuation    "'", "\"", "\\", ".", ",", ":", "-", "+", "_", "[",    *)
(*                  "]", "^", "grave" (U+0060), "middot" (U+00B7),         *)
(*                  "hyphpoint" (U+2027); case ignores "'", ".", ":", "^"  *)
(*                  and the last three                                     *)
(*   any other token is a printable character without case that is no      *)
(*   digit and no whitespace (a Hangul syllable, for one).                 *)
(*                                                                         *)
(* A dynamically typed Python/JSON value is a record [t, s, n, l] with     *)
(*   t = "absent" (key not in the dict), "none" (None / JSON null),        *)
(*       "str" (s is the string), "int" (n is the number),                 *)
(*       "list" (l is the list).                                           *)
(***************************************************************************)
EXTENDS Integers, Sequences, FiniteSets, TLC

----------------------------------------------------------------------------
(* Dynamic values                                                          *)

Absent == [t |-> "absent", s |-> <<>>, n |-> 0, l |-> <<>>]
None == [t |-> "none", s |-> <<>>, n |-> 0, l |-> <<>>]
StrV(s) == [t |-> "str", s |-> s, n |-> 0, l |-> <<>>]
IntV(n) == [t |-> "int", s |-> <<>>, n |-> n, l |-> <<>>]
ListV(l) == [t |-> "list", s |-> <<>>, n |-> 0, l |-> l]

\* Python truthiness of a value: None, "", 0, [] and a missing key are falsy.
Truthy(v) ==
    CASE v.t = "str" -> v.s # <<>>
      [] v.t = "int" -> v.n # 0
      [] v.t = "list" -> v.l # <<>>
      [] OTHER -> FALSE

\* dict.get(key, default): the default replaces a missing key only.
GetOr(v, default) == IF v.t = "absent" THEN default ELSE v

\* The result of a call: a returned value, or a raised exception.
Ok(v) == [raised |-> FALSE, exc |-> "", v |-> v]
Raise(e) == [raised |-> TRUE, exc |-> e, v |-> <<>>]

----------------------------------------------------------------------------
(* Strings                                                                 *)

\* The decimal digits (category Nd) by script, each row in the order 0..9.
DecimalDigits ==
    <<<<"0", "1", "2", "3", "4", "5", "6", "7", "8", "9">>,
      <<"ar0", "ar1", "ar2", "ar3", "ar4", "ar5", "ar6", "ar7", "ar8", "ar9">>,
      <<"fw0", "fw1", "fw2", "fw3", "fw4", "fw5", "fw6", "fw7", "fw8", "fw9">>,
      <<"dv0", "dv1", "dv2", "dv3", "dv4", "dv5", "dv6", "dv7", "dv8", "dv9">>>>

\* The digits "0".."9"
AsciiDigits == {DecimalDigits[1][i] : i \in 1..10}

\* The characters \d matches in a str pattern and int() reads: the decimal
\* digits of every script.
Digits == {DecimalDigits[r][i] : r \in DOMAIN DecimalDigits, i \in 1..10}

\* Whitespace to str.strip() and to \s
IsSpace(c) == c \in {" ", "\n", "\t", "x1f"}

RECURSIVE LStrip(_)
LStrip(s) == IF s # <<>> /\ IsSpace(Head(s)) THEN LStrip(Tail(s)) ELSE s

RECURSIVE RStrip(_)
RStrip(s) ==
    IF s # <<>> /\ IsSpace(s[Len(s)]) THEN RStrip(SubSeq(s, 1, Len(s) - 1)) ELSE s

\* str.strip()
Strip(s) == RStrip(LStrip(s))

\* str.startswith(prefix)
StartsWith(s, prefix) ==
    /\ Len(prefix) <= Len(s)
    /\ SubSeq(s, 1, Len(prefix)) = prefix

\* x in list
InList(x, list) == \E i \in DOMAIN list : list[i] = x

\* One decimal digit of str(n)
DigitChar(d) ==
    CASE d = 0 -> "0" [] d = 1 -> "1" [] d = 2 -> "2" [] d = 3 -> "3"
      [] d = 4 -> "4" [] d = 5 -> "5" [] d = 6 -> "6" [] d = 7 -> "7"
      [] d = 8 -> "8" [] d = 9 -> "9"

\* str(n) for an integer
RECURSIVE IntToStr(_)
IntToStr(n) ==
    IF n < 0 THEN <<"-">> \o IntToStr(-n)
    ELSE IF n < 10 THEN <<DigitChar(n)>>
    ELSE Append(IntToStr(n \div 10), DigitChar(n % 10))

IsDecimal(s) == s # <<>> /\ \A i \in DOMAIN s : s[i] \in Digits

\* The value of a decimal digit of any script
DigitValue(c) ==
    CHOOSE d \in 0..9 : \E r \in DOMAIN DecimalDigits : DecimalDigits[r][d + 1] = c

\* The value of a string of decimal digits
RECURSIVE StrToInt(_)
StrToInt(s) ==
    IF s = <<>> THEN 0
    ELSE 10 * StrToInt(SubSeq(s, 1, Len(s) - 1)) + DigitValue(s[Len(s)])

\* An integer literal of int(): an optional sign, then decimal digits
\* that single underscores may group (a digit first, a digit last, no two
\* underscores in a row).
IsIntLiteral(s) ==
    LET body == IF s # <<>> /\ Head(s) \in {"+", "-"} THEN Tail(s) ELSE s
    IN  /\ body # <<>>
        /\ \A i \in DOMAIN body : body[i] \in Digits \cup {"_"}
        /\ body[1] \in Digits
        /\ body[Len(body)] \in Digits
        /\ \A i \in 1..(Len(body) - 1) : ~(body[i] = "_" /\ body[i + 1] = "_")

\* The value of an integer literal.
IntLiteralValue(s) ==
    LET body == IF Head(s) \in {"+", "-"} THEN Tail(s) ELSE s
        magnitude == StrToInt(SelectSeq(body, LAMBDA c : c # "_"))
    IN  IF Head(s) = "-" THEN -magnitude ELSE magnitude

\* A string without the white space int() skips at its ends: blank, tab and
\* line feed.
RECURSIVE IntStrip(_)
IntStrip(s) ==
    IF s = <<>> THEN s
    ELSE IF Head(s) \in {" ", "\n", "\t"} THEN IntStrip(Tail(s))
    ELSE IF s[Len(s)] \in {" ", "\n", "\t"}
         THEN IntStrip(SubSeq(s, 1, Len(s) - 1))
    ELSE s

\* int(s) on a string: the white space around the literal is dropped (blank,
\* tab, line feed; U+001F, which str.strip() removes, is not white space to
\* int()), a sign, underscores between the digits and the decimal digits of
\* every script are allowed, anything else raises ValueError.
PyInt(s) ==
    LET Read(literal) ==
            IF IsIntLiteral(literal) THEN Ok(IntLiteralValue(literal))
            ELSE Raise("ValueError")
    IN  Read(IntStrip(s))

\* re.search(r"(\d+)", s): the first maximal run of decimal digits, or <<>>
\* when the string holds no digit.
RECURSIVE DigitRun(_)
DigitRun(s) ==
    IF s # <<>> /\ Head(s) \in Digits THEN <<Head(s)>> \o DigitRun(Tail(s))
    ELSE <<>>

RECURSIVE FirstDigitRun(_)
FirstDigitRun(s) ==
    IF s = <<>> THEN <<>>
    ELSE IF Head(s) \in Digits THEN DigitRun(s)
    ELSE FirstDigitRun(Tail(s))

\* _CIRCLED_NUMBERS.get(key, ""): "1".."10" map to the circled glyphs.
CircledNumbers(key) ==
    CASE key = <<"1">> -> <<"c1">>
      [] key = <<"2">> -> <<"c2">>
      [] key = <<"3">> -> <<"c3">>
      [] key = <<"4">> -> <<"c4">>
      [] key = <<"5">> -> <<"c5">>
      [] key = <<"6">> -> <<"c6">>
      [] key = <<"7">> -> <<"c7">>
      [] key = <<"8">> -> <<"c8">>
      [] key = <<"9">> -> <<"c9">>
      [] key = <<"1", "0">> -> <<"c10">>
      [] OTHER -> <<>>

----------------------------------------------------------------------------
(* _match_answer_to_option                                                 *)

\* The first option whose stripped text starts with the prefix, or <<>>.
RECURSIVE FirstPrefixed(_, _)
FirstPrefixed(prefix, options) ==
    IF options = <<>> THEN <<>>
    ELSE IF StartsWith(Strip(Head(options)), prefix) THEN Head(options)
    ELSE FirstPrefixed(prefix, Tail(options))

HasPrefixed(prefix, options) ==
    \E i \in DOMAIN options : StartsWith(Strip(options[i]), prefix)

\* Mutant: the converted glyph is matched exactly only.
MatchByNumberExact(text, options) ==
    LET symbol == CircledNumbers(FirstDigitRun(text))
    IN  IF symbol # <<>> /\ InList(symbol, options) THEN symbol ELSE <<>>

\* Step 3 of the matcher: digit run -> circled glyph -> exact / prefix match.
MatchByNumber(text, options) ==
    LET symbol == CircledNumbers(FirstDigitRun(text))
    IN  IF symbol = <<>> THEN <<>>
        ELSE IF InList(symbol, options) THEN symbol
        ELSE IF HasPrefixed(symbol, options) THEN FirstPrefixed(symbol, options)
        ELSE <<>>

\* Mutant: an unmatched token is handed back as it came.
MatchStrippedRaw(text, options) ==
    IF InList(text, options) THEN text
    ELSE IF HasPrefixed(text, options) THEN FirstPrefixed(text, options)
    ELSE IF MatchByNumber(text, options) # <<>> THEN MatchByNumber(text, options)
    ELSE text

\* The matcher after answer_text.strip(): exact, prefix, number conversion.
MatchStripped(text, options) ==
    IF InList(text, options) THEN text
    ELSE IF HasPrefixed(text, options) THEN FirstPrefixed(text, options)
    ELSE MatchByNumber(text, options)

\* _match_answer_to_option(answer_text, options) on a dynamic value: a falsy
\* value gives "", a string is stripped and matched, any other truthy value
\* has no strip() and raises AttributeError.
_match_answer_to_option(answer_text, options) ==
    IF ~Truthy(answer_text) THEN Ok(<<>>)
    ELSE IF answer_text.t = "str"
         THEN Ok(MatchStripped(Strip(answer_text.s), options))
    ELSE Raise("AttributeError")

----------------------------------------------------------------------------
(* models/question_model.py: Question                                      *)

\* A model-response item is a dict; its keys are dynamic values.
MkItem(id, subject, question_text, options, answer, explanation, page_number) ==
    [id |-> id, subject |-> subject, question_text |-> question_text,
     options |-> options, answer |-> answer, explanation |-> explanation,
     page_number |-> page_number]

\* The explanation attribute of a Question is kept as a dynamic value:
\* validation makes it a str, model_copy(update=...) stores what it is given.
NoQuestion ==
    [id |-> 0, subject |-> <<>>, question_text |-> <<>>, options |-> <<>>,
     answer |-> <<>>, explanation |-> StrV(<<>>), page_number |-> 0]

\* A string without the fraction of zeros (".0", ".00", ...) that follows
\* its first point; a point with nothing after it is left in place.
StripDecimalZeros(s) ==
    LET points == {i \in DOMAIN s : s[i] = "."}
        first == CHOOSE i \in points : \A j \in points : i <= j
    IN  IF /\ points # {}
           /\ first < Len(s)
           /\ \A j \in (first + 1)..Len(s) : s[j] = "0"
        THEN SubSeq(s, 1, first - 1)
        ELSE s

\* The digits of a string with its leading zeros taken off: the string as it
\* is when it starts with "1".."9"; after a first "0", zeros and underscores
\* are passed over up to a digit "1".."9" or a "-" (the rest from there), a
\* point (the rest from the character before it) or the end (the last
\* character). Anything else in the way leaves no number.
StripLeadingZeros(s) ==
    LET stops == {i \in 2..Len(s) : s[i] \notin {"0", "_"}}
        From(stop) ==
            IF s[stop] \in (AsciiDigits \ {"0"}) \cup {"-"}
            THEN Ok(SubSeq(s, stop, Len(s)))
            ELSE IF s[stop] = "." THEN Ok(SubSeq(s, stop - 1, Len(s)))
            ELSE Raise("ValidationError")
    IN  IF s = <<>> THEN Raise("ValidationError")
        ELSE IF s[1] \in AsciiDigits \ {"0"} THEN Ok(s)
        ELSE IF s[1] # "0" THEN Raise("ValidationError")
        ELSE IF stops = {} THEN Ok(<<s[Len(s)]>>)
        ELSE From(CHOOSE i \in stops : \A j \in stops : i <= j)

\* A string without its underscores, when it has one and they stand singly
\* between other characters; else the string as it is.
StripUnderscores(s) ==
    IF /\ \E i \in DOMAIN s : s[i] = "_"
       /\ s[1] # "_"
       /\ s[Len(s)] # "_"
       /\ \A i \in 1..(Len(s) - 1) : ~(s[i] = "_" /\ s[i + 1] = "_")
    THEN SelectSeq(s, LAMBDA c : c # "_")
    ELSE s

\* The number grammar the cleaned string is read with: an optional "-", then
\* "0" or digits that start with "1".."9".
IsPlainInt(s) ==
    LET body == IF s # <<>> /\ Head(s) = "-" THEN Tail(s) ELSE s
    IN  /\ body # <<>>
        /\ \A i \in DOMAIN body : body[i] \in AsciiDigits
        /\ (Len(body) > 1 => body[1] # "0")

\* An int field (lax mode): an int is taken as is. A string loses the white
\* space around it (blank, tab, line feed), then one sign, its leading
\* zeros, a fraction of zeros and its underscores; the sign "-" is put back
\* and the result is read as a plain number in the digits "0".."9".
\* Anything else is rejected.
IntField(v) ==
    LET Written(literal) ==
            IF IsPlainInt(literal) THEN Ok(IntLiteralValue(literal))
            ELSE Raise("ValidationError")
        Cleaned(trimmed, nonzero) ==
            IF nonzero.raised THEN Raise("ValidationError")
            ELSE Written((IF trimmed[1] = "-" THEN <<"-">> ELSE <<>>)
                         \o StripUnderscores(StripDecimalZeros(nonzero.v)))
        Unsigned(trimmed) ==
            IF trimmed # <<>> /\ trimmed[1] \in {"+", "-"} THEN Tail(trimmed)
            ELSE trimmed
        Read(trimmed) == Cleaned(trimmed, StripLeadingZeros(Unsigned(trimmed)))
    IN  IF v.t = "int" THEN Ok(v.n)
        ELSE IF v.t = "str" THEN Read(IntStrip(v.s))
        ELSE Raise("ValidationError")

\* Field declarations: the type and min_length constraints of each field.
IdFieldOk(v) == ~IntField(v).raised
SubjectFieldOk(v) == v.t = "str" /\ Len(v.s) >= 1
QuestionTextFieldOk(v) == v.t = "str" /\ Len(v.s) >= 1
OptionsFieldOk(v) == v.t = "list"
AnswerFieldOk(v) == v.t = "str"
ExplanationFieldOk(v) == v.t = "str"
PageNumberFieldOk(v) == ~IntField(v).raised

\* Validator 1: options holds at least two entries.
validate_options_length(v) == Len(v) >= 2

\* Mutant: the answer is never compared with the options.
validate_answer_unchecked(answer, options) == TRUE

\* Validator 2: a non-empty answer is one of the options.
validate_answer_in_options(answer, options) ==
    ~(answer # <<>> /\ ~InList(answer, options))

\* Question(**item): the fields are validated, then validator 1 (with the
\* options field), then validator 2 (after the model is built).
Question(item) ==
    IF /\ IdFieldOk(item.id)
       /\ SubjectFieldOk(item.subject)
       /\ QuestionTextFieldOk(item.question_text)
       /\ OptionsFieldOk(item.options)
       /\ AnswerFieldOk(item.answer)
       /\ ExplanationFieldOk(item.explanation)
       /\ PageNumberFieldOk(item.page_number)
       /\ validate_options_length(item.options.l)
       /\ validate_answer_in_options(item.answer.s, item.options.l)
    THEN Ok([id |-> IntField(item.id).v, subject |-> item.subject.s,
             question_text |-> item.question_text.s,
             options |-> item.options.l, answer |-> item.answer.s,
             explanation |-> item.explanation,
             page_number |-> IntField(item.page_number).v])
    ELSE Raise("ValidationError")

----------------------------------------------------------------------------
(* _parse_response_to_questions                                            *)

\* The glyphs of the character class [c1-c5] the run-on split looks for.
SplitGlyphs == {"c1", "c2", "c3", "c4", "c5"}

HasSplitGlyph(s) == \E i \in DOMAIN s : s[i] \in SplitGlyphs

\* re.split(r"(?=[c1-c5])", single): cut in front of every glyph.
RECURSIVE SplitBeforeGlyph(_, _, _)
SplitBeforeGlyph(s, cur, acc) ==
    IF s = <<>> THEN Append(acc, cur)
    ELSE IF Head(s) \in SplitGlyphs
         THEN SplitBeforeGlyph(Tail(s), <<Head(s)>>, Append(acc, cur))
    ELSE SplitBeforeGlyph(Tail(s), Append(cur, Head(s)), acc)

\* [p.strip() for p in parts if p.strip()]
RECURSIVE StripNonEmpty(_)
StripNonEmpty(parts) ==
    IF parts = <<>> THEN <<>>
    ELSE IF Strip(Head(parts)) = <<>> THEN StripNonEmpty(Tail(parts))
    ELSE <<Strip(Head(parts))>> \o StripNonEmpty(Tail(parts))

\* A one-element options list holding a run-on string is split into options.
SplitOptions(options) ==
    IF options.t = "list" /\ Len(options.l) = 1 /\ HasSplitGlyph(options.l[1])
    THEN LET parts == StripNonEmpty(SplitBeforeGlyph(options.l[1], <<>>, <<>>))
         IN  IF Len(parts) >= 2 THEN ListV(parts) ELSE options
    ELSE options

\* The characters of s as repr() writes them between the quotes: the quote
\* and the backslash behind a backslash, line feed and tab as \n and \t,
\* any other character that is not printable as \xhh.
RECURSIVE Escaped(_, _)
Escaped(s, quote) ==
    IF s = <<>> THEN <<>>
    ELSE LET c == Head(s)
             written ==
                 CASE c \in {quote, "\\"} -> <<"\\", c>>
                   [] c = "\n" -> <<"\\", "n">>
                   [] c = "\t" -> <<"\\", "t">>
                   [] c = "x1f" -> <<"\\", "x", "1", "f">>
                   [] c = "x00" -> <<"\\", "x", "0", "0">>
                   [] OTHER -> <<c>>
         IN  written \o Escaped(Tail(s), quote)

\* repr(s) of a string: in single quotes, or in double quotes when it holds
\* a single quote and no double quote.
ReprStr(s) ==
    LET has(c) == \E i \in DOMAIN s : s[i] = c
        quote == IF has("'") /\ ~has("\"") THEN "\"" ELSE "'"
    IN  <<quote>> \o Escaped(s, quote) \o <<quote>>

\* ", ".join(repr(x) for x in list)
RECURSIVE JoinRepr(_)
JoinRepr(list) ==
    IF list = <<>> THEN <<>>
    ELSE IF Len(list) = 1 THEN ReprStr(list[1])
    ELSE ReprStr(Head(list)) \o <<",", " ">> \o JoinRepr(Tail(list))

\* str(value): a string is itself, an int its digits, a list the reprs of
\* its elements in brackets, None the word None.
PyStr(v) ==
    CASE v.t = "str" -> v.s
      [] v.t = "int" -> IntToStr(v.n)
      [] v.t = "list" -> <<"[">> \o JoinRepr(v.l) \o <<"]">>
      [] OTHER -> <<"N", "o", "n", "e">>

\* An answer that is not verbatim one of the options is replaced by the
\* matcher's result.
NormalizeAnswer(answer, options) ==
    IF Truthy(answer) /\ Truthy(options) /\ options.t = "list"
    THEN LET raw_answer == Strip(PyStr(answer))
         IN  IF InList(raw_answer, options.l) THEN answer
             ELSE StrV(_match_answer_to_option(StrV(raw_answer), options.l).v)
    ELSE answer

\* One pass of the loop body over an item: "skip" (continue), "raise" (the
\* exception leaves the function) or "append" with the Question built.
ParseItem(item) ==
    LET qt == GetOr(item.question_text, StrV(<<>>)) IN
    IF qt.t # "str" THEN [op |-> "raise", q |-> NoQuestion]
    ELSE IF Strip(qt.s) = <<>> THEN [op |-> "skip", q |-> NoQuestion]
    ELSE IF ~Truthy(item.options) THEN [op |-> "skip", q |-> NoQuestion]
    ELSE LET opts == SplitOptions(item.options)
             ans == NormalizeAnswer(item.answer, opts)
             page == IF Truthy(item.page_number) THEN item.page_number
                     ELSE IntV(0)
             Built(question) ==
                 IF question.raised THEN [op |-> "skip", q |-> NoQuestion]
                 ELSE [op |-> "append", q |-> question.v]
         IN  Built(Question([item EXCEPT !.options = opts, !.answer = ans,
                                         !.page_number = page]))

\* The for loop over the items: the list built, or the exception of the
\* first item that raises.
RECURSIVE ParseItems(_, _)
ParseItems(items, questions) ==
    IF items = <<>> THEN Ok(questions)
    ELSE LET Body(r) ==
                 IF r.op = "raise" THEN Raise("AttributeError")
                 ELSE IF r.op = "append"
                      THEN ParseItems(Tail(items), Append(questions, r.q))
                 ELSE ParseItems(Tail(items), questions)
         IN  Body(ParseItem(Head(items)))

\* A model response is described by what _clean_json_response and json.loads
\* make of its text:
\*   "empty"      the empty string
\*   "text"       text without any brace or bracket pair: it cleans to ""
\*   "badjson"    json.loads raises JSONDecodeError
\*   "questions"  an object whose "questions" key holds the items
\*   "items"      an object without "questions" whose "items" key holds them
\*   "object"     an object with neither key
\*   "array"      a bare array of the items
\*   "scalar"     an object whose "questions" value is no list
\*   "answers"    an object whose "answers" key holds the items
ResponseForms ==
    {"empty", "text", "badjson", "questions", "answers", "items", "object",
     "array", "scalar"}

ListForms == {"questions", "items", "array"}

\* _parse_response_to_questions(raw_response): kind "none" (the response did
\* not parse), "list" (the Questions built) or "raised".
_parse_response_to_questions(raw_response) ==
    IF raw_response.form \in {"empty", "text", "badjson", "scalar"}
    THEN [kind |-> "none", questions |-> <<>>]
    ELSE LET data == IF raw_response.form \in ListForms
                     THEN raw_response.items ELSE <<>>
             r == ParseItems(data, <<>>)
         IN  IF r.raised THEN [kind |-> "raised", questions |-> <<>>]
             ELSE [kind |-> "list", questions |-> r.v]

----------------------------------------------------------------------------
(* merge_answers                                                           *)

\* The upper-case letters with one lower-case form, and those forms.
UpperLetters ==
    <<"A", "B", "C", "D", "E", "F", "G", "H", "I", "J", "K", "L", "M",
      "N", "O", "P", "Q", "R", "S", "T", "U", "V", "W", "X", "Y", "Z",
      "A_uml", "E_acute", "Zhe", "fwA">>

LowerLetters ==
    <<"a", "b", "c", "d", "e", "f", "g", "h", "i", "j", "k", "l", "m",
      "n", "o", "p", "q", "r", "s", "t", "u", "v", "w", "x", "y", "z",
      "a_uml", "e_acute", "zhe", "fwa">>

\* The lower-case form of a character other than the capital sigma
Lower(c) ==
    IF \E i \in DOMAIN UpperLetters : UpperLetters[i] = c
    THEN LowerLetters[CHOOSE i \in DOMAIN UpperLetters : UpperLetters[i] = c]
    ELSE c

\* str.lower(): every cased character is lowered; a capital sigma becomes
\* the final sigma when a cased character stands before it and none after
\* it, characters that case ignores skipped on either side.
PyLower(s) ==
    LET cased(c) ==
            \/ \E i \in DOMAIN UpperLetters :
                   c \in {UpperLetters[i], LowerLetters[i]}
            \/ c \in {"Sigma", "sigma", "fsigma"}
        ignorable == {"'", ".", ":", "^", "grave", "middot", "hyphpoint"}
        before(i) == {j \in 1..(i - 1) : s[j] \notin ignorable}
        after(i) == {j \in (i + 1)..Len(s) : s[j] \notin ignorable}
        nearest_before(i) == CHOOSE j \in before(i) : \A k \in before(i) : k <= j
        nearest_after(i) == CHOOSE j \in after(i) : \A k \in after(i) : j <= k
        final(i) ==
            /\ before(i) # {}
            /\ cased(s[nearest_before(i)])
            /\ after(i) = {} \/ ~cased(s[nearest_after(i)])
    IN  IF s = <<>> THEN <<>>
        ELSE [i \in 1..Len(s) |->
                 IF s[i] = "Sigma"
                 THEN (IF final(i) THEN "fsigma" ELSE "sigma")
                 ELSE Lower(s[i])]

\* The character class [\s middle-dot hyphenation-point \- _] that
\* _normalize_subject removes ("middot" and "hyphpoint" stand for U+00B7 and
\* U+2027).
IsSubjectNoise(c) == IsSpace(c) \/ c \in {"middot", "hyphpoint", "-", "_"}

\* re.sub(r"[...]", "", s).lower()
NormalizeStr(s) == PyLower(SelectSeq(s, LAMBDA c : ~IsSubjectNoise(c)))

\* _normalize_subject(s) on a dynamic value: a falsy value gives "", a
\* string is normalised, re.sub raises TypeError on anything else.
_normalize_subject(s) ==
    IF ~Truthy(s) THEN Ok(<<>>)
    ELSE IF s.t = "str" THEN Ok(NormalizeStr(s.s))
    ELSE Raise("TypeError")

\* An answer record is a dict of dynamic values.
MkAnswer(id, subject, answer, explanation) ==
    [id |-> id, subject |-> subject, answer |-> answer,
     explanation |-> explanation]

\* The first loop: every record that has an id gets its subject normalised
\* and is stored under its id; the call raises TypeError when a subject
\* cannot be normalised or an id cannot be a dict key (a list is unhashable).
BuildMapsRaises(answers) ==
    \E i \in DOMAIN answers :
        /\ answers[i].id.t # "absent"
        /\ \/ _normalize_subject(GetOr(answers[i].subject, StrV(<<>>))).raised
           \/ answers[i].id.t = "list"

\* Dict keys are compared by value: an int id equals the same int only.
IdEquals(v, id) == v.t = "int" /\ v.n = id

Max(S) == CHOOSE x \in S : \A y \in S : y <= x

\* subject_map.get((q_subj, q.id)): the index of the last record stored under
\* the composite key, 0 when there is none.  Only records with a non-empty
\* normalised subject are stored.
SubjectMapGet(answers, q_subj, qid) ==
    LET hits == {i \in DOMAIN answers :
                    /\ IdEquals(answers[i].id, qid)
                    /\ LET subj == _normalize_subject(
                                       GetOr(answers[i].subject, StrV(<<>>))).v
                       IN  subj # <<>> /\ subj = q_subj}
    IN  IF hits = {} THEN 0 ELSE Max(hits)

\* id_only_map.get(q.id): the index of the last record with this id.
IdOnlyMapGet(answers, qid) ==
    LET hits == {i \in DOMAIN answers : IdEquals(answers[i].id, qid)}
    IN  IF hits = {} THEN 0 ELSE Max(hits)

\* info = subject_map.get((q_subj, q.id)) or id_only_map.get(q.id)
LookupInfo(answers, q) ==
    LET q_subj == _normalize_subject(StrV(q.subject)).v
        bySubject == SubjectMapGet(answers, q_subj, q.id)
    IN  IF bySubject # 0 THEN bySubject ELSE IdOnlyMapGet(answers, q.id)

\* The branch `if info:` for one question and the record found for it: the
\* copy of the question with answer and explanation replaced, or the
\* exception _match_answer_to_option raises outside the try block.
MergeRecord(q, info) ==
    LET raw_answer == GetOr(info.answer, StrV(<<>>))
        given == GetOr(info.explanation, StrV(<<>>))
        explanation == IF Truthy(given) THEN given ELSE q.explanation
        matched == _match_answer_to_option(raw_answer, q.options)
    IN  IF matched.raised THEN matched
        ELSE Ok([q EXCEPT !.answer = matched.v,
                          !.explanation = explanation])

\* The input Questions are objects: heap[ref] holds the fields of the
\* Question at position ref of the list handed in.  An object built during
\* the call has the reference NewObject.
NewObject == 0

\* Mutant: the fields are assigned to the object itself, which is returned.
model_copy_in_place(heap, ref, updated) ==
    [out |-> Ok(updated), heap |-> [heap EXCEPT ![ref] = updated],
     ref |-> ref]

\* new_q = q.model_copy(update={...}) for the object ref, `updated` being
\* its fields with the update applied: a new object holds them and no
\* field of the object copied is assigned.
model_copy(heap, ref, updated) ==
    [out |-> Ok(updated), heap |-> heap, ref |-> NewObject]

\* The loop body for the object ref: the Question appended to merged with
\* the object it is, or the exception raised, and the input objects after
\* it.  Without a record merged.append(q) takes the object itself.
MergeQuestion(heap, ref, answers) ==
    LET q == heap[ref]
        info == LookupInfo(answers, q)
    IN  IF info = 0 THEN [out |-> Ok(q), heap |-> heap, ref |-> ref]
        ELSE LET r == MergeRecord(q, answers[info])
             IN  IF r.raised THEN [out |-> r, heap |-> heap, ref |-> ref]
                 ELSE model_copy(heap, ref, r.v)

\* Mutant: a question without a matching record is left out of the result.
RECURSIVE MergeLoopDropUnmatched(_, _, _, _, _)
MergeLoopDropUnmatched(heap, ref, answers, merged, refs) ==
    IF ref > Len(heap)
    THEN [out |-> Ok(merged), heap |-> heap, refs |-> refs]
    ELSE LET body == MergeQuestion(heap, ref, answers)
         IN  IF body.out.raised
             THEN [out |-> body.out, heap |-> body.heap, refs |-> refs]
             ELSE IF body.ref = ref
                  THEN MergeLoopDropUnmatched(body.heap, ref + 1, answers,
                                              merged, refs)
             ELSE MergeLoopDropUnmatched(body.heap, ref + 1, answers,
                                         Append(merged, body.out.v),
                                         Append(refs, body.ref))

\* The second loop, over the questions in order: what the call returns or
\* raises, the input objects as the loop leaves them, and for every entry
\* of merged the object it refers to.
RECURSIVE MergeLoop(_, _, _, _, _)
MergeLoop(heap, ref, answers, merged, refs) ==
    IF ref > Len(heap)
    THEN [out |-> Ok(merged), heap |-> heap, refs |-> refs]
    ELSE LET body == MergeQuestion(heap, ref, answers)
         IN  IF body.out.raised
             THEN [out |-> body.out, heap |-> body.heap, refs |-> refs]
             ELSE MergeLoop(body.heap, ref + 1, answers,
                            Append(merged, body.out.v),
                            Append(refs, body.ref))

\* The call merge_answers(questions, answers) with its effect on the input
\* objects.
MergeCall(questions, answers) ==
    IF BuildMapsRaises(answers)
    THEN [out |-> Raise("TypeError"), heap |-> questions, refs |-> <<>>]
    ELSE MergeLoop(questions, 1, answers, <<>>, <<>>)

\* merge_answers(questions, answers): what the call returns or raises
merge_answers(questions, answers) == MergeCall(questions, answers).out

----------------------------------------------------------------------------
(* _get_client and _call_openai_with_retry                                 *)

_MAX_WORKERS == 5
_MAX_API_RETRIES == 3
_BACKOFF_BASE == 1
_RATE_LIMIT_MAX_RETRIES == 5
_RATE_LIMIT_BACKOFF_BASE == 2

\* The cached client is named by the key it was built from; NoClient is None.
NoClient == "none"
NoKey == ""

\* _get_client(): the cached client when there is one; otherwise a client
\* built from the environment's key and cached, or None when the key is
\* missing or the constructor raises (built = FALSE).
GetClient(cached, key, built) ==
    IF cached # NoClient THEN [ret |-> cached, cache |-> cached]
    ELSE IF key = NoKey THEN [ret |-> NoClient, cache |-> cached]
    ELSE IF built THEN [ret |-> key, cache |-> key]
    ELSE [ret |-> NoClient, cache |-> cached]

\* Mutant: reset_client leaves the cached client in place.
reset_client_keep(cached) == cached

\* reset_client(): _client = None
reset_client(cached) == NoClient

RECURSIVE Pow2(_)
Pow2(n) == IF n = 0 THEN 1 ELSE 2 * Pow2(n - 1)

\* What one API attempt can do.  An APIError carries a status code (0 when
\* it has none) and a message, described by the keyword it holds.
TransientKeywords ==
    {"timeout", "connection", "unavailable", "context_length", "token"}

TransientStatus == {500, 502, 503, 504}

Success(text) == [kind |-> "ok", text |-> text, status |-> 0, word |-> ""]
RateLimited == [kind |-> "ratelimit", text |-> "", status |-> 429, word |-> ""]
ApiError(status, word) ==
    [kind |-> "api", text |-> "", status |-> status, word |-> word]
Unexpected == [kind |-> "other", text |-> "", status |-> 0, word |-> ""]

\* is_transient of the APIError handler
IsTransient(e) == e.word \in TransientKeywords \/ e.status \in TransientStatus

\* Mutant: an exception that is neither a RateLimitError nor an APIError
\* is left to propagate out of the loop.
AttemptStepReraise(outcome, attempt, effective_retries) ==
    CASE outcome.kind = "ok" ->
            [op |-> "return", wait |-> 0, effective |-> effective_retries]
      [] outcome.kind = "ratelimit" ->
            IF attempt < _RATE_LIMIT_MAX_RETRIES
            THEN [op |-> "retry",
                  wait |-> _RATE_LIMIT_BACKOFF_BASE * Pow2(attempt - 1),
                  effective |-> _RATE_LIMIT_MAX_RETRIES]
            ELSE [op |-> "break", wait |-> 0,
                  effective |-> _RATE_LIMIT_MAX_RETRIES]
      [] outcome.kind = "api" ->
            IF attempt < effective_retries /\ IsTransient(outcome)
            THEN [op |-> "retry", wait |-> _BACKOFF_BASE * Pow2(attempt - 1),
                  effective |-> effective_retries]
            ELSE [op |-> "break", wait |-> 0, effective |-> effective_retries]
      [] OTHER ->
            [op |-> "raise", wait |-> 0, effective |-> effective_retries]

\* One pass of the retry loop's try statement at the given attempt:
\* "return" the text, "retry" after a sleep of wait seconds, or "break".
\* Every exception is caught by one of the three handlers.
AttemptStep(outcome, attempt, effective_retries) ==
    CASE outcome.kind = "ok" ->
            [op |-> "return", wait |-> 0, effective |-> effective_retries]
      [] outcome.kind = "ratelimit" ->
            IF attempt < _RATE_LIMIT_MAX_RETRIES
            THEN [op |-> "retry",
                  wait |-> _RATE_LIMIT_BACKOFF_BASE * Pow2(attempt - 1),
                  effective |-> _RATE_LIMIT_MAX_RETRIES]
            ELSE [op |-> "break", wait |-> 0,
                  effective |-> _RATE_LIMIT_MAX_RETRIES]
      [] outcome.kind = "api" ->
            IF attempt < effective_retries /\ IsTransient(outcome)
            THEN [op |-> "retry", wait |-> _BACKOFF_BASE * Pow2(attempt - 1),
                  effective |-> effective_retries]
            ELSE [op |-> "break", wait |-> 0, effective |-> effective_retries]
      [] OTHER ->
            [op |-> "break", wait |-> 0, effective |-> effective_retries]

----------------------------------------------------------------------------
(* _extract_questions_from_text                                            *)

\* What _call_openai_with_retry handed back: None, or a response text.
NoResult == [got |-> FALSE, resp |-> [form |-> "empty", items |-> <<>>]]
Got(resp) == [got |-> TRUE, resp |-> resp]

\* if raw: a returned text that is not the empty string
RawTruthy(call) == call.got /\ call.resp.form # "empty"

\* Mutant: a first response that does not parse ends the section.
_extract_questions_no_retry(first, second) ==
    IF ~first.got THEN [calls |-> 1, raised |-> FALSE, v |-> <<>>]
    ELSE LET q1 == _parse_response_to_questions(first.resp) IN
         IF q1.kind = "raised" THEN [calls |-> 1, raised |-> TRUE, v |-> <<>>]
         ELSE [calls |-> 1, raised |-> FALSE, v |-> q1.questions]

\* _extract_questions_from_text, given the results of its first and (when
\* it is made) second model call: the list returned or the exception that
\* leaves it, and the number of calls made.
_extract_questions_from_text(first, second) ==
    IF ~first.got THEN [calls |-> 1, raised |-> FALSE, v |-> <<>>]
    ELSE LET q1 == _parse_response_to_questions(first.resp) IN
         IF q1.kind = "raised" THEN [calls |-> 1, raised |-> TRUE, v |-> <<>>]
         ELSE IF q1.kind = "list"
              THEN [calls |-> 1, raised |-> FALSE, v |-> q1.questions]
         ELSE IF ~RawTruthy(second)
              THEN [calls |-> 2, raised |-> FALSE, v |-> <<>>]
         ELSE LET q2 == _parse_response_to_questions(second.resp) IN
              IF q2.kind = "raised"
              THEN [calls |-> 2, raised |-> TRUE, v |-> <<>>]
              ELSE IF q2.kind = "list"
                   THEN [calls |-> 2, raised |-> FALSE, v |-> q2.questions]
              ELSE [calls |-> 2, raised |-> FALSE, v |-> <<>>]

----------------------------------------------------------------------------
(* parse_pdf: the checks in front of the fan-out                           *)

MAX_PDF_PAGES == 200
ScanThreshold == 100

\* The non-whitespace characters "\n[PAGE i]\n...\n" leaves once "[PAGE" is
\* removed: the digits of i and the closing bracket, summed over the pages
\* by the number of digits (page numbers have at most four).
MarkerResidue(pages) ==
    LET withDigits(d) ==
            Cardinality({i \in 1..pages : Len(IntToStr(i)) = d})
    IN  2 * withDigits(1) + 3 * withDigits(2) + 4 * withDigits(3)
        + 5 * withDigits(4)

\* A document is described by its number of pages, the number of
\* non-whitespace characters of its pages' text (doc.text), the number of
\* times that text holds the string "[PAGE" (doc.marks), and its sections.
MarkLength == 5

\* non_ws: replace("[PAGE", "") removes the string from the page markers
\* and from the pages' own text alike; what is counted is the rest of the
\* pages' text plus what is left of the page markers.
NonWs(doc) ==
    doc.text - MarkLength * doc.marks + MarkerResidue(doc.pages)

\* The scanned-document test of parse_pdf.
IsScanned(doc) == NonWs(doc) < ScanThreshold

\* The result of a parse_pdf call.
Pending == [kind |-> "pending", exc |-> "", msg |-> "", v |-> <<>>]
Returned(v) == [kind |-> "list", exc |-> "", msg |-> "", v |-> v]
Raised(exc, msg) == [kind |-> "raise", exc |-> exc, msg |-> msg, v |-> <<>>]

\* Lines 84-119 for non-empty bytes and a client: the exception raised or
\* the list returned before any section is parsed, or "pending" when the
\* document goes on to the fan-out.
DocumentCheck(bytes, doc) ==
    IF bytes = "garbage" THEN Returned(<<>>)
    ELSE IF doc.pages > MAX_PDF_PAGES THEN Raised("ValueError", "pages")
    ELSE IF IsScanned(doc) THEN Raised("ValueError", "scanned")
    ELSE Pending

----------------------------------------------------------------------------
(* _parse_answer_table_deterministic                                       *)

\* The text of an answer PDF is its sequence of lines (text.split("\n")).
\* Hangul syllables are characters named by their romanisation.
SubjectNames ==
    <<<<"mu", "yeok", "gyu", "beom">>, <<"mu", "yeok", "gyeol", "je">>,
      <<"mu", "yeok", "gye", "yak">>, <<"mu", "yeok", "yeong", "eo">>>>

NumberLabel == <<"mun", "je", "beon", "ho">>
AnswerLabel == <<"jeong", "dap">>

\* The set `circled`: the single glyphs c1..c10.
CircledTokens ==
    {<<"c1">>, <<"c2">>, <<"c3">>, <<"c4">>, <<"c5">>, <<"c6">>, <<"c7">>,
     <<"c8">>, <<"c9">>, <<"c10">>}

\* Characters str.isdigit() accepts: the decimal digits of every script,
\* the glyphs c1..c9 (c10 has no digit value) and the superscript two.
DigitLike ==
    Digits \cup {"c1", "c2", "c3", "c4", "c5", "c6", "c7", "c8", "c9", "sup2"}

IsDigit(s) == s # <<>> /\ \A i \in DOMAIN s : s[i] \in DigitLike
RECURSIVE RemoveSpace(_)
RemoveSpace(s) ==
    IF s = <<>> THEN <<>>
    ELSE IF IsSpace(Head(s)) THEN RemoveSpace(Tail(s))
    ELSE <<Head(s)>> \o RemoveSpace(Tail(s))

\* The text without any whitespace, line breaks included.
RECURSIVE Squeeze(_)
Squeeze(lines) ==
    IF lines = <<>> THEN <<>>
    ELSE RemoveSpace(Head(lines)) \o Squeeze(Tail(lines))

Contains(s, sub) ==
    \E i \in 1..(Len(s) - Len(sub) + 1) : SubSeq(s, i, i + Len(sub) - 1) = sub

\* re.search(r"\s*".join(name), text): the characters of the name in a row,
\* with nothing but whitespace between them.
HeaderFound(lines, name) == Contains(Squeeze(lines), name)

\* found_subjects, in the order of subject_names
RECURSIVE FoundSubjects(_, _)
FoundSubjects(lines, names) ==
    IF names = <<>> THEN <<>>
    ELSE IF HeaderFound(lines, Head(names))
         THEN <<Head(names)>> \o FoundSubjects(lines, Tail(names))
    ELSE FoundSubjects(lines, Tail(names))

\* data_start_idx as a 1-based line index: the line after the last label
\* line, or the first line when no label is found past the first line.
DataStart(lines) ==
    LET labels == {i \in DOMAIN lines :
                      Strip(lines[i]) \in {NumberLabel, AnswerLabel}}
        last_label_idx == IF labels = {} THEN 0 ELSE Max(labels) - 1
    IN  IF last_label_idx > 0 THEN last_label_idx + 2 ELSE 1

\* tokens: the stripped lines from data_start_idx on that are all digits or
\* one circled glyph
RECURSIVE Tokens(_, _)
Tokens(lines, idx) ==
    IF idx > Len(lines) THEN <<>>
    ELSE LET stripped == Strip(lines[idx]) IN
         IF stripped # <<>> /\ (IsDigit(stripped) \/ stripped \in CircledTokens)
         THEN <<stripped>> \o Tokens(lines, idx + 1)
         ELSE Tokens(lines, idx + 1)

GroupSize == 5
BlockSize == GroupSize * 2

\* The inner for loop over one block of ten tokens: a record for every
\* number that int() accepts.
RECURSIVE BlockRecords(_, _, _, _)
BlockRecords(numbers, ans_tokens, subject, j) ==
    IF j > GroupSize THEN <<>>
    ELSE IF j <= Len(numbers) /\ IsDecimal(numbers[j])
         THEN <<MkAnswer(IntV(StrToInt(numbers[j])), StrV(subject),
                         StrV(IF j <= Len(ans_tokens) THEN ans_tokens[j]
                              ELSE <<>>),
                         StrV(<<>>))>>
              \o BlockRecords(numbers, ans_tokens, subject, j + 1)
    ELSE BlockRecords(numbers, ans_tokens, subject, j + 1)

BlockAt(tokens, block_start, subject) ==
    BlockRecords(SubSeq(tokens, block_start + 1, block_start + GroupSize),
                 SubSeq(tokens, block_start + GroupSize + 1,
                        block_start + BlockSize),
                 subject, 1)

\* One row group: a block for each found subject.
RECURSIVE RowRecords(_, _, _, _)
RowRecords(tokens, pos, subjects, subj_idx) ==
    IF subj_idx > Len(subjects) THEN <<>>
    ELSE BlockAt(tokens, pos + (subj_idx - 1) * BlockSize, subjects[subj_idx])
         \o RowRecords(tokens, pos, subjects, subj_idx + 1)

\* The while loop over the full row groups.
RECURSIVE FullRows(_, _, _)
FullRows(tokens, pos, subjects) ==
    IF pos + BlockSize * Len(subjects) <= Len(tokens)
    THEN RowRecords(tokens, pos, subjects, 1)
         \o FullRows(tokens, pos + BlockSize * Len(subjects), subjects)
    ELSE <<>>

FullRowsEnd(tokens, subjects) ==
    (Len(tokens) \div (BlockSize * Len(subjects))) * (BlockSize * Len(subjects))

\* The while loop over the remaining tokens, one subject block at a time.
RECURSIVE Remainder(_, _, _, _)
Remainder(remaining, rem_pos, subjects, subj_idx) ==
    IF rem_pos + BlockSize <= Len(remaining) /\ subj_idx <= Len(subjects)
    THEN BlockAt(remaining, rem_pos, subjects[subj_idx])
         \o Remainder(remaining, rem_pos + BlockSize, subjects, subj_idx + 1)
    ELSE <<>>

\* The ids recorded for a subject, in order
RECURSIVE SubjectIds(_, _)
SubjectIds(answers, subject) ==
    IF answers = <<>> THEN <<>>
    ELSE IF Head(answers).subject.s = subject
         THEN <<Head(answers).id.n>> \o SubjectIds(Tail(answers), subject)
    ELSE SubjectIds(Tail(answers), subject)

\* ids == sorted(set(ids)): strictly increasing
StrictlyIncreasing(ids) == \A i \in 1..(Len(ids) - 1) : ids[i] < ids[i + 1]

_parse_answer_table_deterministic(text) ==
    LET found_subjects == FoundSubjects(text, SubjectNames)
        tokens == Tokens(text, DataStart(text))
    IN  IF Len(found_subjects) < 2 THEN <<>>
        ELSE IF tokens = <<>> THEN <<>>
        ELSE LET pos == FullRowsEnd(tokens, found_subjects)
                 answers ==
                     FullRows(tokens, 0, found_subjects)
                     \o Remainder(SubSeq(tokens, pos + 1, Len(tokens)), 0,
                                  found_subjects, 1)
             IN  IF Len(answers) < Len(found_subjects) * 10 THEN <<>>
                 ELSE IF \E k \in DOMAIN found_subjects :
                            ~StrictlyIncreasing(
                                 SubjectIds(answers, found_subjects[k]))
                      THEN <<>>
                 ELSE answers

----------------------------------------------------------------------------
(* _extract_answers_from_text and parse_answer_pdf                         *)

\* item["id"] = int(item["id"]) unless it is an int already: a string that
\* holds an integer literal converts, any other string raises ValueError,
\* None and a list raise TypeError.
ConvertId(id) ==
    IF id.t = "int" THEN Ok(id)
    ELSE IF id.t = "str"
         THEN IF PyInt(id.s).raised THEN Raise("ValueError")
              ELSE Ok(IntV(PyInt(id.s).v))
    ELSE Raise("TypeError")

\* The loop over the items of an answers response.
RECURSIVE AnswerItems(_, _, _)
AnswerItems(data, subject_context, results) ==
    IF data = <<>> THEN Ok(results)
    ELSE LET item == Head(data) IN
         IF item.id.t = "absent" \/ item.answer.t = "absent"
         THEN AnswerItems(Tail(data), subject_context, results)
         ELSE LET id == ConvertId(item.id) IN
              IF id.raised THEN id
              ELSE AnswerItems(Tail(data), subject_context,
                       Append(results,
                              [item EXCEPT !.id = id.v,
                                           !.subject =
                                               IF Truthy(item.subject)
                                               THEN item.subject
                                               ELSE StrV(subject_context)]))

AnswerListForms == {"answers", "items", "array"}

\* _clean_json_response(raw) is empty
CleanedEmpty(call) == call.resp.form \in {"empty", "text"}

\* _extract_answers_from_text, given the results of its first and (when it
\* is made) second model call.
_extract_answers_from_text(first, second, subject_context) ==
    IF ~first.got THEN [calls |-> 1, raised |-> FALSE, exc |-> "", v |-> <<>>]
    ELSE LET retried == CleanedEmpty(first)
             used == IF retried THEN second ELSE first
             calls == IF retried THEN 2 ELSE 1
         IN  IF retried /\ ~RawTruthy(second)
             THEN [calls |-> 2, raised |-> FALSE, exc |-> "", v |-> <<>>]
             ELSE IF CleanedEmpty(used) \/ used.resp.form \in {"badjson", "scalar"}
             THEN [calls |-> calls, raised |-> FALSE, exc |-> "", v |-> <<>>]
             ELSE LET data == IF used.resp.form \in AnswerListForms
                              THEN used.resp.items ELSE <<>>
                      r == AnswerItems(data, subject_context, <<>>)
                  IN  [calls |-> calls, raised |-> r.raised, exc |-> r.exc,
                       v |-> r.v]

----------------------------------------------------------------------------
(* State                                                                   *)

VARIABLES
    v_pc,          \* validator run: "idle", "call" or "done"
    v_resp,        \* the model response handed to _parse_response_to_questions
    v_out,         \* what the validator returned
    m_pc,          \* merge run: "idle", "call" or "done"
    m_questions,   \* the Question list handed to merge_answers
    m_answers,     \* the answer records handed to merge_answers
    m_out,         \* what merge_answers returned or raised
    m_refs,        \* per returned Question: the input object it is, or NewObject
    g_client,      \* the module's cached client (_client)
    g_key,         \* os.environ["OPENAI_API_KEY"]
    r_pc,          \* retry call: "idle", "start", "loop", "done" or "raised"
    r_attempt,     \* the loop variable attempt
    r_last,        \* the last value range(1, effective_retries + 1) yields
    r_effective,   \* effective_retries
    r_log,         \* the outcomes of the API attempts made so far
    r_sleeps,      \* the backoff sleeps taken so far, in seconds
    r_result,      \* the value returned: a text or "none"
    p_pc,          \* parse_pdf: "idle", "start", "collect" or "done"
    p_bytes,       \* file_bytes: "empty", "garbage" (no PDF) or "pdf"
    p_doc,         \* the document the bytes hold
    p_handle,      \* the fitz document: "none", "open" or "closed"
    p_worker,      \* per section: "pending", "running", "done", "collected"
    p_future,      \* per section: what its worker returned or raised
    p_results,     \* results: per collected section its list
    p_order,       \* the keys of results in insertion order
    p_all,         \* all_questions
    p_out,         \* what parse_pdf returned or raised
    a_pc,          \* parse_answer_pdf: "idle", "start", "sections", "done"
    a_bytes,       \* file_bytes: "empty", "garbage" (no PDF) or "pdf"
    a_doc,         \* the answer document: its lines and its sections
    a_handle,      \* the fitz document: "none", "open" or "closed"
    a_idx,         \* the section the fallback loop is at
    a_calls,       \* model calls made by the fallback so far
    a_all,         \* all_answers
    a_out,         \* what parse_answer_pdf returned or raised
    t_pc,          \* table parser: "idle", "run" between calls, the part of
                   \* the function a call is in, or "done"
    t_frame,       \* the argument and the locals of the call, as last assigned
    t_text,        \* the text handed to _parse_answer_table_deterministic
    t_runs,        \* what each run on t_text returned, in order
    n_pc,          \* answer matching: "idle", "call" or "done"
    n_answer,      \* answer_text handed to _match_answer_to_option
    n_options,     \* options handed to _match_answer_to_option
    n_out,         \* what _match_answer_to_option returned or raised
    k_pc,          \* client use: "idle" or "run"
    k_made,        \* how many clients OpenAI(api_key=...) has constructed
    k_id,          \* which construction the cached client is (0: none)
    k_ret,         \* what the last _get_client() call returned
    k_old,         \* the constructions that were cached at a key change
    k_changed,     \* the key was changed and _get_client() not called since
    w_pc,          \* per thread: where it is in _get_client()
    w_key,         \* per thread: its local api_key
    w_built,       \* per thread: the client its OpenAI(...) call constructed
    w_ret,         \* per thread: what its last _get_client() call returned
    w_calls,       \* per thread: the _get_client() calls it has started
    x_pc,          \* key change: "off", "idle" or "reset" (key set, reset due)
    x_changes,     \* key changes begun so far
    e_pc,          \* st.session_state.page: "idle", "home", "exam", "result"
    e_rerun,       \* a run of the script is due: the last one ended in
                   \* st.rerun(), or a callback has run and the script not yet
    e_questions,   \* st.session_state.questions
    e_index,       \* exam_state.current_quest_index (0-based)
    e_answers,     \* exam_state.user_answers: question id -> option
    e_radio,       \* st.session_state["radio_<id>"]: question id -> value
    e_confirm,     \* st.session_state["confirm_submit"]
    e_submitted,   \* exam_state.is_submitted
    e_given,       \* per question: the option the user last chose for it
    e_score,       \* final_score in hundredths of a point
    e_incorrect,   \* st.session_state.incorrect_questions
    s_pc,          \* session store: "idle" or "run"
    s_now,         \* time.time(), in seconds
    s_ticks,       \* how often the clock has advanced
    s_sessions,    \* _sessions: session id -> state
    s_timestamps,  \* _timestamps: session id -> time of last access
    s_made,        \* sessions created so far
    s_sweep,       \* cleanup_expired: the value of now it holds, -1 outside
    s_dead,        \* ids whose session was once older than SESSION_TTL
    s_ret          \* what the last get_session call returned

validatorVars == <<v_pc, v_resp, v_out>>
mergeVars == <<m_pc, m_questions, m_answers, m_out, m_refs>>
clientVars == <<g_client, g_key>>
retryVars == <<r_pc, r_attempt, r_last, r_effective, r_log, r_sleeps, r_result>>
parseVars ==
    <<p_pc, p_bytes, p_doc, p_handle, p_worker, p_future, p_results,
      p_order, p_all, p_out>>
answerVars ==
    <<a_pc, a_bytes, a_doc, a_handle, a_idx, a_calls, a_all, a_out>>
tableVars == <<t_pc, t_frame, t_text, t_runs>>
matchVars == <<n_pc, n_answer, n_options, n_out>>
keyVars == <<k_pc, k_made, k_id, k_ret, k_old, k_changed>>
raceVars == <<w_pc, w_key, w_built, w_ret, w_calls, x_pc, x_changes>>
examVars ==
    <<e_pc, e_rerun, e_questions, e_index, e_answers, e_radio, e_confirm,
      e_submitted, e_given, e_score, e_incorrect>>
sessionVars ==
    <<s_pc, s_now, s_ticks, s_sessions, s_timestamps, s_made, s_sweep,
      s_dead, s_ret>>
vars ==
    <<validatorVars, mergeVars, clientVars, retryVars, parseVars, answerVars,
      tableVars, matchVars, keyVars, raceVars, examVars, sessionVars>>

NoResponse == [form |-> "empty", items |-> <<>>]
NoOutput == [kind |-> "pending", questions |-> <<>>]

ValidatorIdle ==
    /\ v_pc = "idle"
    /\ v_resp = NoResponse
    /\ v_out = NoOutput

MergeIdle ==
    /\ m_pc = "idle"
    /\ m_questions = <<>>
    /\ m_answers = <<>>
    /\ m_out = Ok(<<>>)
    /\ m_refs = <<>>

ClientIdle ==
    /\ g_client = NoClient
    /\ g_key = NoKey

RetryIdle ==
    /\ r_pc = "idle"
    /\ r_attempt = 0
    /\ r_last = 0
    /\ r_effective = 0
    /\ r_log = <<>>
    /\ r_sleeps = <<>>
    /\ r_result = "none"

NoDoc == [pages |-> 0, text |-> 0, marks |-> 0, sections |-> <<>>]

ParseIdle ==
    /\ p_pc = "idle"
    /\ p_bytes = "empty"
    /\ p_doc = NoDoc
    /\ p_handle = "none"
    /\ p_worker = <<>>
    /\ p_future = <<>>
    /\ p_results = <<>>
    /\ p_order = <<>>
    /\ p_all = <<>>
    /\ p_out = Pending

NoAnswerDoc == [lines |-> <<>>, sections |-> <<>>]

AnswerIdle ==
    /\ a_pc = "idle"
    /\ a_bytes = "empty"
    /\ a_doc = NoAnswerDoc
    /\ a_handle = "none"
    /\ a_idx = 0
    /\ a_calls = 0
    /\ a_all = <<>>
    /\ a_out = Pending

\* No call of the table parser was made yet.
NoFrame ==
    [text |-> <<>>, prior |-> <<>>, found_subjects |-> <<>>, tokens |-> <<>>,
     answers |-> <<>>]

TableIdle ==
    /\ t_pc = "idle"
    /\ t_frame = NoFrame
    /\ t_text = <<>>
    /\ t_runs = <<>>

MatchIdle ==
    /\ n_pc = "idle"
    /\ n_answer = None
    /\ n_options = <<>>
    /\ n_out = Ok(<<>>)

\* What a _get_client() call returned: the client, named by the key it was
\* built from, which construction it is, whether this call constructed it
\* and whether the call was the first one after a change of the key.
NoReturn == [client |-> NoClient, id |-> 0, fresh |-> FALSE, first |-> FALSE]

KeyIdle ==
    /\ k_pc = "idle"
    /\ k_made = 0
    /\ k_id = 0
    /\ k_ret = NoReturn
    /\ k_old = {}
    /\ k_changed = FALSE

\* The threads that call _get_client().
Threads == {"t1", "t2"}

RaceIdle ==
    /\ w_pc = [t \in Threads |-> "idle"]
    /\ w_key = [t \in Threads |-> NoKey]
    /\ w_built = [t \in Threads |-> NoClient]
    /\ w_ret = [t \in Threads |-> NoClient]
    /\ w_calls = [t \in Threads |-> 0]
    /\ x_pc = "off"
    /\ x_changes = 0

ExamIdle ==
    /\ e_pc = "idle"
    /\ e_rerun = FALSE
    /\ e_questions = <<>>
    /\ e_index = 0
    /\ e_answers = <<>>
    /\ e_radio = <<>>
    /\ e_confirm = FALSE
    /\ e_submitted = FALSE
    /\ e_given = <<>>
    /\ e_score = 0
    /\ e_incorrect = <<>>

\* What get_session returned: for which id, whether it was a session, and
\* whether that session had been older than SESSION_TTL before.
NoSession == [sid |-> 0, found |-> FALSE, dead |-> FALSE]

SessionIdle ==
    /\ s_pc = "idle"
    /\ s_now = 0
    /\ s_ticks = 0
    /\ s_sessions = <<>>
    /\ s_timestamps = <<>>
    /\ s_made = 0
    /\ s_sweep = -1
    /\ s_dead = {}
    /\ s_ret = NoSession

----------------------------------------------------------------------------
(* Inputs                                                                  *)

MaxItems == 2
MaxQuestions == 2
MaxAnswers == 2

\* All sequences over S of length 0..n
SeqsUpTo(S, n) == UNION {[1..k -> S] : k \in 0..n}

sA == <<"c1", " ", "A">>
sB == <<"c2", " ", "B">>
TwoOptions == <<sA, sB>>
RunOnOptions == <<sA \o <<" ">> \o sB>>

\* Items of a model response: every combination of a question text, an
\* options value and an answer value.
QuestionTexts == {Absent, None, StrV(<<" ">>), StrV(<<"Q">>)}

OptionValues ==
    {Absent, ListV(<<>>), ListV(<<sA>>), ListV(RunOnOptions),
     ListV(TwoOptions), StrV(sA)}

AnswerValues ==
    {Absent, None, StrV(<<>>), StrV(sB), StrV(<<" ">> \o sB), StrV(<<"2">>),
     StrV(<<"c2">>), StrV(<<"X">>), StrV(<<" ">>), IntV(2),
     ListV(<<<<"2">>>>)}

Items ==
    {MkItem(IntV(1), StrV(<<"S">>), qt, o, a, StrV(<<>>), Absent) :
        qt \in QuestionTexts, o \in OptionValues, a \in AnswerValues}

\* The sibling item that is kept: it is valid as it stands, its id " 02 "
\* and its page number "3" written as strings.
KeptSibling ==
    MkItem(StrV(<<" ", "0", "2", " ">>), StrV(<<"S">>), StrV(<<"Q">>),
           ListV(TwoOptions), StrV(sA), StrV(<<"E">>), StrV(<<"3">>))

\* The sibling item that is dropped: its id "3." has a decimal point and no
\* zero after it, which is no integer.
DroppedSibling ==
    MkItem(StrV(<<"3", ".">>), StrV(<<"S">>), StrV(<<"Q">>),
           ListV(TwoOptions), StrV(sA), StrV(<<>>), IntV(3))

\* A sibling item whose id " 0-1" converts: the blank is trimmed and the
\* zero in front of the sign skipped, which leaves -1.
SignedSibling ==
    MkItem(StrV(<<" ", "0", "-", "1">>), StrV(<<"S">>), StrV(<<"Q">>),
           ListV(TwoOptions), StrV(sB), StrV(<<>>), IntV(1))

\* The other items of a response.
SiblingItems == {KeptSibling, DroppedSibling, SignedSibling}

\* Item lists: one item of Items anywhere among sibling items.
ItemLists ==
    {<<>>} \cup UNION {
        {[i \in 1..k |-> IF i = p THEN x ELSE f[i]] :
            p \in 1..k, x \in Items, f \in [1..k -> SiblingItems]} :
        k \in 1..MaxItems}

Responses ==
    {[form |-> fm, items |-> <<>>] : fm \in ResponseForms \ ListForms}
    \cup {[form |-> fm, items |-> il] : fm \in ListForms, il \in ItemLists}

\* Valid Questions handed to merge_answers: ids repeat across subjects; one
\* subject holds a sigma in front of a "^", which lower() skips when it
\* looks for the letter after a capital sigma.
MkQuestion(id, subject, options, answer, explanation) ==
    [id |-> id, subject |-> subject, question_text |-> <<"Q">>,
     options |-> options, answer |-> answer,
     explanation |-> StrV(explanation), page_number |-> 1]

PaddedOptions == <<<<" ">> \o sA, <<"c2">>>>

QuestionSet ==
    {MkQuestion(1, <<"A">>, TwoOptions, <<>>, <<>>),
     MkQuestion(1, <<"b", "sigma", "^", "a">>, PaddedOptions, <<"c2">>, <<"o">>),
     MkQuestion(2, <<"A">>, TwoOptions, sA, <<"o">>),
     MkQuestion(2, <<"a_uml">>, <<<<"X", "1">>, sB>>, <<>>, <<>>),
     MkQuestion(1, <<"-">>, TwoOptions, <<>>, <<>>)}

\* Answer records: with and without id, an id that is a list, subject and
\* answer absent, null, empty, padded, unmatched or of integer type, a
\* subject with a capital sigma, explanation absent, null, empty, a string
\* or an integer.
AnswerSet ==
    {MkAnswer(IntV(1), StrV(<<"a">>), StrV(<<"2">>), Absent),
     MkAnswer(IntV(1), StrV(<<"B", "Sigma", "^", "a">>), StrV(<<"c1">>),
              StrV(<<"E">>)),
     MkAnswer(IntV(1), Absent, StrV(<<" ">> \o sA \o <<" ">>), Absent),
     MkAnswer(IntV(2), StrV(<<"a">>), StrV(<<"X">>), StrV(<<"E">>)),
     MkAnswer(IntV(2), None, IntV(2), Absent),
     MkAnswer(Absent, StrV(<<"a">>), StrV(<<"c2">>), Absent),
     MkAnswer(IntV(1), IntV(7), StrV(<<"c1">>), Absent),
     MkAnswer(IntV(2), StrV(<<"A_uml">>), None, None),
     MkAnswer(IntV(1), StrV(<<"-", " ", "A">>), StrV(<<" ">>), StrV(<<>>)),
     MkAnswer(IntV(2), StrV(<<"a_uml">>), Absent, StrV(<<"E">>)),
     MkAnswer(IntV(1), StrV(<<>>), StrV(sB), Absent),
     MkAnswer(IntV(2), StrV(<<"A">>), StrV(<<"Z", "9">>), IntV(5)),
     MkAnswer(ListV(<<<<"1">>>>), StrV(<<"A">>), StrV(<<"c1">>), Absent)}

----------------------------------------------------------------------------
(* The validator applied to a response                                     *)

InitValidator ==
    /\ v_pc = "call"
    /\ v_resp \in Responses
    /\ v_out = NoOutput
    /\ MergeIdle
    /\ ClientIdle
    /\ RetryIdle
    /\ ParseIdle
    /\ AnswerIdle
    /\ TableIdle
    /\ MatchIdle
    /\ KeyIdle
    /\ RaceIdle
    /\ ExamIdle
    /\ SessionIdle

ValidateResponse ==
    /\ v_pc = "call"
    /\ v_out' = _parse_response_to_questions(v_resp)
    /\ v_pc' = "done"
    /\ UNCHANGED <<v_resp, tableVars, raceVars, examVars,
                   sessionVars, matchVars, keyVars, mergeVars,
                   clientVars, retryVars, parseVars, answerVars>>

NextValidator == ValidateResponse

SpecValidator == InitValidator /\ [][NextValidator]_vars

----------------------------------------------------------------------------
(* merge_answers applied to questions and answer records                   *)

InitMerge ==
    /\ m_pc = "call"
    /\ m_questions \in SeqsUpTo(QuestionSet, MaxQuestions)
    /\ m_answers \in SeqsUpTo(AnswerSet, MaxAnswers)
    /\ m_out = Ok(<<>>)
    /\ m_refs = <<>>
    /\ ValidatorIdle
    /\ ClientIdle
    /\ RetryIdle
    /\ ParseIdle
    /\ AnswerIdle
    /\ TableIdle
    /\ MatchIdle
    /\ KeyIdle
    /\ RaceIdle
    /\ ExamIdle
    /\ SessionIdle

MergeAnswers ==
    /\ m_pc = "call"
    /\ LET call == MergeCall(m_questions, m_answers)
       IN  /\ m_out' = call.out
           /\ m_questions' = call.heap
           /\ m_refs' = call.refs
    /\ m_pc' = "done"
    /\ UNCHANGED <<m_answers, validatorVars, raceVars, examVars,
                   sessionVars, tableVars,
                   matchVars, keyVars, clientVars, retryVars, parseVars,
                   answerVars>>

NextMerge == MergeAnswers

SpecMerge == InitMerge /\ [][NextMerge]_vars

----------------------------------------------------------------------------
(* _call_openai_with_retry as a state machine                              *)

Keys == {"k1"}
Texts == {"t1", "t2"}

ApiOutcomes ==
    {Success(t) : t \in Texts} \cup {RateLimited, Unexpected}
    \cup {ApiError(st, w) : st \in {0, 400, 500, 503},
                            w \in {"", "timeout", "token"}}

InitRetry ==
    /\ g_client \in {NoClient} \cup Keys
    /\ g_key \in {NoKey} \cup Keys
    /\ r_pc = "start"
    /\ r_attempt = 0
    /\ r_last = 0
    /\ r_effective = 0
    /\ r_log = <<>>
    /\ r_sleeps = <<>>
    /\ r_result = "none"
    /\ ValidatorIdle
    /\ MergeIdle
    /\ ParseIdle
    /\ AnswerIdle
    /\ TableIdle
    /\ MatchIdle
    /\ KeyIdle
    /\ RaceIdle
    /\ ExamIdle
    /\ SessionIdle

\* client = _get_client(); without a client the call returns None, with one
\* the for loop over range(1, max_retries + 1) is entered.
RetryBegin ==
    /\ r_pc = "start"
    /\ \E built \in BOOLEAN :
        LET c == GetClient(g_client, g_key, built) IN
        /\ g_client' = c.cache
        /\ IF c.ret = NoClient
           THEN /\ r_pc' = "done"
                /\ UNCHANGED <<r_attempt, r_last, r_effective>>
           ELSE /\ r_pc' = "loop"
                /\ r_attempt' = 1
                /\ r_last' = _MAX_API_RETRIES
                /\ r_effective' = _MAX_API_RETRIES
    /\ UNCHANGED <<g_key, r_log, r_sleeps, r_result, validatorVars, raceVars, examVars,
                   sessionVars, tableVars,
                   matchVars, keyVars, mergeVars, parseVars, answerVars>>

\* One API attempt and its handler.  After a retry the loop takes the next
\* value of its range; when the range is used up, or after a break, the
\* call returns None.
RetryAttempt ==
    /\ r_pc = "loop"
    /\ \E outcome \in ApiOutcomes :
        LET step == AttemptStep(outcome, r_attempt, r_effective) IN
        /\ r_log' = Append(r_log, outcome)
        /\ r_effective' = step.effective
        /\ CASE step.op = "return" ->
                  /\ r_result' = outcome.text
                  /\ r_pc' = "done"
                  /\ UNCHANGED <<r_attempt, r_sleeps>>
             [] step.op = "retry" ->
                  /\ r_sleeps' = Append(r_sleeps, step.wait)
                  /\ r_result' = "none"
                  /\ IF r_attempt < r_last
                     THEN r_attempt' = r_attempt + 1 /\ r_pc' = "loop"
                     ELSE r_attempt' = r_attempt /\ r_pc' = "done"
             [] step.op = "break" ->
                  /\ r_result' = "none"
                  /\ r_pc' = "done"
                  /\ UNCHANGED <<r_attempt, r_sleeps>>
             [] OTHER ->
                  /\ r_result' = "none"
                  /\ r_pc' = "raised"
                  /\ UNCHANGED <<r_attempt, r_sleeps>>
    /\ UNCHANGED <<r_last, clientVars, validatorVars, raceVars, examVars,
                   sessionVars, tableVars, matchVars,
                   keyVars, mergeVars, parseVars, answerVars>>

NextRetry == RetryBegin \/ RetryAttempt

SpecRetry == InitRetry /\ [][NextRetry]_vars

----------------------------------------------------------------------------
(* parse_pdf as a state machine                                            *)

MaxSections == 3

\* Responses a section's model calls can bring back.
ValidItem(id) ==
    MkItem(IntV(id), StrV(<<"S">>), StrV(<<"Q">>), ListV(TwoOptions),
           StrV(sA), StrV(<<>>), IntV(1))

NullTextItem ==
    MkItem(IntV(9), StrV(<<"S">>), None, ListV(TwoOptions),
           StrV(sA), StrV(<<>>), IntV(1))

ThreeItems ==
    [form |-> "questions",
     items |-> <<ValidItem(1), ValidItem(2), ValidItem(3)>>]
OneItem == [form |-> "array", items |-> <<ValidItem(5)>>]
BadJson == [form |-> "badjson", items |-> <<>>]
NullText == [form |-> "questions", items |-> <<ValidItem(7), NullTextItem>>]

PlainText == [form |-> "text", items |-> <<>>]

\* A section is described by the results of the model calls made for it.
SectionCases ==
    {[first |-> Got(ThreeItems), second |-> NoResult],
     [first |-> Got(BadJson), second |-> Got(OneItem)],
     [first |-> NoResult, second |-> NoResult],
     [first |-> Got(BadJson), second |-> NoResult],
     [first |-> Got(NullText), second |-> NoResult]}

\* Sections whose second call fails as well, brings back the empty string,
\* or follows a first response that is empty or holds no list.
RetryCases ==
    {[first |-> Got(BadJson), second |-> Got(BadJson)],
     [first |-> Got(BadJson), second |-> Got(NoResponse)],
     [first |-> Got(NoResponse), second |-> Got(ThreeItems)],
     [first |-> Got(PlainText), second |-> Got(PlainText)],
     [first |-> Got([form |-> "scalar", items |-> <<>>]),
      second |-> Got(OneItem)],
     [first |-> Got([form |-> "object", items |-> <<>>]),
      second |-> Got(OneItem)]}

\* Documents: page counts and text sizes around the two limits, each with
\* one section; one page whose text of ScanThreshold characters holds the
\* string "[PAGE" once or throughout; and short text-bearing documents with
\* several sections.
\* A document without text has no subject header, hence one section.
PageCounts == {0, 1, 36, 37, MAX_PDF_PAGES, MAX_PDF_PAGES + 1}
TextSizes == {0, ScanThreshold - 3, ScanThreshold}

Docs ==
    {[pages |-> n, text |-> t, marks |-> 0, sections |-> <<c>>] :
        n \in PageCounts \ {0}, t \in TextSizes, c \in SectionCases}
    \cup {[pages |-> 1, text |-> ScanThreshold, marks |-> k,
           sections |-> <<c>>] : k \in {1, 20}, c \in SectionCases}
    \cup {[pages |-> 0, text |-> 0, marks |-> 0, sections |-> <<c>>] :
            c \in SectionCases}
    \cup {[pages |-> 2, text |-> 50 * ScanThreshold, marks |-> 0,
           sections |-> <<c>>] : c \in RetryCases}
    \cup {[pages |-> 2, text |-> 50 * ScanThreshold, marks |-> 0,
           sections |-> ss] :
            ss \in UNION {[1..k -> SectionCases] : k \in 2..MaxSections}}

Init ==
    /\ p_pc = "start"
    /\ p_bytes \in {"empty", "garbage", "pdf"}
    /\ p_doc \in IF p_bytes = "pdf" THEN Docs ELSE {NoDoc}
    /\ p_handle = "none"
    /\ p_worker = <<>>
    /\ p_future = <<>>
    /\ p_results = <<>>
    /\ p_order = <<>>
    /\ p_all = <<>>
    /\ p_out = Pending
    /\ g_client \in {NoClient} \cup Keys
    /\ g_key \in {NoKey} \cup Keys
    /\ ValidatorIdle
    /\ MergeIdle
    /\ RetryIdle
    /\ AnswerIdle
    /\ TableIdle
    /\ MatchIdle
    /\ KeyIdle
    /\ RaceIdle
    /\ ExamIdle
    /\ SessionIdle

NoFuture == [calls |-> 0, raised |-> FALSE, v |-> <<>>]

\* Lines 84-139: the checks on the bytes, the client and the document, then
\* one task per section is submitted to the executor.  The finally clause
\* closes a document that was opened.
ParsePdfBegin ==
    /\ p_pc = "start"
    /\ \E built \in BOOLEAN :
        LET c == GetClient(g_client, g_key, built)
            checked == DocumentCheck(p_bytes, p_doc)
        IN
        IF p_bytes = "empty"
        THEN /\ p_out' = Raised("ValueError", "empty")
             /\ p_pc' = "done"
             /\ UNCHANGED <<g_client, p_handle, p_worker, p_future,
                            p_results>>
        ELSE IF c.ret = NoClient
        THEN /\ p_out' = Raised("RuntimeError", "client")
             /\ p_pc' = "done"
             /\ g_client' = c.cache
             /\ UNCHANGED <<p_handle, p_worker, p_future, p_results>>
        ELSE IF checked.kind # "pending"
        THEN /\ p_out' = checked
             /\ p_pc' = "done"
             /\ g_client' = c.cache
             /\ p_handle' = IF p_bytes = "garbage" THEN "none" ELSE "closed"
             /\ UNCHANGED <<p_worker, p_future, p_results>>
        ELSE /\ p_out' = Pending
             /\ p_pc' = "collect"
             /\ g_client' = c.cache
             /\ p_handle' = "open"
             /\ p_worker' = [i \in DOMAIN p_doc.sections |-> "pending"]
             /\ p_future' = [i \in DOMAIN p_doc.sections |-> NoFuture]
             /\ p_results' = [i \in DOMAIN p_doc.sections |-> <<>>]
    /\ UNCHANGED <<p_bytes, p_doc, p_order, p_all, g_key, validatorVars, raceVars, examVars,
                   sessionVars,
                   tableVars, matchVars, keyVars, mergeVars, retryVars,
                   answerVars>>

Running == {i \in DOMAIN p_worker : p_worker[i] = "running"}

\* A pool thread takes the oldest queued task; at most _MAX_WORKERS run.
WorkerStart(i) ==
    /\ p_pc = "collect"
    /\ p_worker[i] = "pending"
    /\ \A j \in 1..(i - 1) : p_worker[j] # "pending"
    /\ Cardinality(Running) < _MAX_WORKERS
    /\ p_worker' = [p_worker EXCEPT ![i] = "running"]
    /\ UNCHANGED <<p_pc, p_bytes, p_doc, p_handle, p_future, p_results,
                   p_order, p_all, p_out, clientVars, validatorVars, raceVars, examVars,
                   sessionVars,
                   tableVars, matchVars, keyVars, mergeVars, retryVars,
                   answerVars>>

\* The task _extract_questions_from_text(section_text, subject_hint) ends:
\* its future holds the list it returned or the exception it raised.
WorkerFinish(i) ==
    /\ p_pc = "collect"
    /\ p_worker[i] = "running"
    /\ p_worker' = [p_worker EXCEPT ![i] = "done"]
    /\ p_future' = [p_future EXCEPT ![i] =
           _extract_questions_from_text(p_doc.sections[i].first,
                                        p_doc.sections[i].second)]
    /\ UNCHANGED <<p_pc, p_bytes, p_doc, p_handle, p_results, p_order, p_all,
                   p_out, clientVars, validatorVars, raceVars, examVars,
                   sessionVars, tableVars, matchVars,
                   keyVars, mergeVars, retryVars, answerVars>>

\* Mutant: the exception of a failed section leaves parse_pdf.
CollectReraise(i) ==
    /\ p_pc = "collect"
    /\ p_worker[i] = "done"
    /\ p_worker' = [p_worker EXCEPT ![i] = "collected"]
    /\ IF p_future[i].raised
       THEN /\ p_out' = Raised("AttributeError", "section")
            /\ p_pc' = "done"
            /\ p_handle' = "closed"
            /\ UNCHANGED <<p_results, p_order>>
       ELSE /\ p_results' = [p_results EXCEPT ![i] = p_future[i].v]
            /\ p_order' = Append(p_order, i)
            /\ UNCHANGED <<p_out, p_pc, p_handle>>
    /\ UNCHANGED <<p_bytes, p_doc, p_future, p_all, clientVars, validatorVars, raceVars, examVars,
                   sessionVars,
                   tableVars, matchVars, keyVars, mergeVars, retryVars,
                   answerVars>>

\* One pass of the as_completed loop: a finished future is taken;
\* results[idx] is its list, or [] when future.result() raises.
Collect(i) ==
    /\ p_pc = "collect"
    /\ p_worker[i] = "done"
    /\ p_worker' = [p_worker EXCEPT ![i] = "collected"]
    /\ p_results' = [p_results EXCEPT ![i] =
           IF p_future[i].raised THEN <<>> ELSE p_future[i].v]
    /\ p_order' = Append(p_order, i)
    /\ UNCHANGED <<p_pc, p_bytes, p_doc, p_handle, p_future, p_all, p_out,
                   clientVars, validatorVars, raceVars, examVars,
                   sessionVars, tableVars, matchVars, keyVars,
                   mergeVars, retryVars, answerVars>>

\* results[k[1]] + results[k[2]] + ... for a sequence k of keys
RECURSIVE Extend(_, _)
Extend(keys, results) ==
    IF keys = <<>> THEN <<>>
    ELSE results[Head(keys)] \o Extend(Tail(keys), results)

\* sorted(keys): the keys in ascending order
RECURSIVE Sorted(_)
Sorted(keys) ==
    IF keys = {} THEN <<>>
    ELSE LET m == CHOOSE x \in keys : \A y \in keys : x <= y
         IN  <<m>> \o Sorted(keys \ {m})

Range(f) == {f[i] : i \in DOMAIN f}

\* Mutant: the results are joined in the order they arrived.
AssembleAsArrived ==
    /\ p_pc = "collect"
    /\ \A i \in DOMAIN p_worker : p_worker[i] = "collected"
    /\ p_all' = Extend(p_order, p_results)
    /\ p_out' = Returned(p_all')
    /\ p_handle' = "closed"
    /\ p_pc' = "done"
    /\ UNCHANGED <<p_bytes, p_doc, p_worker, p_future, p_results, p_order,
                   clientVars, validatorVars, raceVars, examVars,
                   sessionVars, tableVars, matchVars, keyVars,
                   mergeVars, retryVars, answerVars>>

\* Lines 149-159: once as_completed is exhausted the lists are joined by
\* ascending section index and returned; the document is closed.
Assemble ==
    /\ p_pc = "collect"
    /\ \A i \in DOMAIN p_worker : p_worker[i] = "collected"
    /\ p_all' = Extend(Sorted(Range(p_order)), p_results)
    /\ p_out' = Returned(p_all')
    /\ p_handle' = "closed"
    /\ p_pc' = "done"
    /\ UNCHANGED <<p_bytes, p_doc, p_worker, p_future, p_results, p_order,
                   clientVars, validatorVars, raceVars, examVars,
                   sessionVars, tableVars, matchVars, keyVars,
                   mergeVars, retryVars, answerVars>>

Next ==
    \/ ParsePdfBegin
    \/ \E i \in DOMAIN p_worker : WorkerStart(i)
    \/ \E i \in DOMAIN p_worker : WorkerFinish(i)
    \/ \E i \in DOMAIN p_worker : Collect(i)
    \/ Assemble

Spec == Init /\ [][Next]_vars

----------------------------------------------------------------------------
(* parse_answer_pdf as a state machine                                     *)

MaxAnswerSections == 2

\* Answer-table text: a line per subject header (letter-spaced), the two
\* column labels, then per row and subject five numbers and five glyphs.
RECURSIVE Spaced(_)
Spaced(name) ==
    IF Len(name) <= 1 THEN name
    ELSE <<Head(name), " ">> \o Spaced(Tail(name))

GlyphLines == <<<<"c1">>, <<"c2">>, <<"c3">>, <<"c4">>, <<"c5">>>>

BlockLines(row) ==
    [j \in 1..GroupSize |-> IntToStr(GroupSize * (row - 1) + j)] \o GlyphLines

RECURSIVE Repeat(_, _)
Repeat(lines, n) == IF n = 0 THEN <<>> ELSE lines \o Repeat(lines, n - 1)

RECURSIVE RowsLines(_, _)
RowsLines(subjects, rows) ==
    IF rows = 0 THEN <<>>
    ELSE RowsLines(subjects, rows - 1) \o Repeat(BlockLines(rows), subjects)

TableText(subjects, rows) ==
    [k \in 1..subjects |-> Spaced(SubjectNames[k])]
    \o <<NumberLabel, AnswerLabel>>
    \o RowsLines(subjects, rows)

\* Free-form answer text: one header only, answers in prose.
FreeText == <<Spaced(SubjectNames[1]), <<"1", ".", " ", "c3">>, <<"2", ".", " ", "c1">>>>

AnswerTexts == {TableText(2, 2), TableText(2, 1), FreeText}

\* Responses the fallback's model calls can bring back.
GoodAnswers ==
    [form |-> "answers",
     items |-> <<MkAnswer(IntV(1), StrV(<<"S">>), StrV(<<"c4">>), StrV(<<>>)),
                 MkAnswer(StrV(<<" ", "+", "1", "_", "2">>), Absent,
                          StrV(<<"c1">>), Absent)>>]
ArrayAnswers ==
    [form |-> "array",
     items |-> <<MkAnswer(StrV(<<"ar3">>), None, StrV(<<"c2">>), Absent),
                 MkAnswer(Absent, Absent, StrV(<<"c2">>), Absent)>>]
BadIdAnswers ==
    [form |-> "answers",
     items |-> <<MkAnswer(StrV(<<"Q", "1">>), Absent, StrV(<<"c1">>), Absent)>>]
\* An id that is a digit behind the control character U+001F, which int()
\* does not strip.
ControlIdAnswers ==
    [form |-> "answers",
     items |-> <<MkAnswer(StrV(<<"x1f", "1">>), Absent, StrV(<<"c1">>),
                          Absent)>>]
EmptyText == [form |-> "empty", items |-> <<>>]

AnswerSectionCases ==
    {[first |-> Got(GoodAnswers), second |-> NoResult, hint |-> <<"H">>],
     [first |-> NoResult, second |-> NoResult, hint |-> <<"H">>],
     [first |-> Got(EmptyText), second |-> Got(ArrayAnswers), hint |-> <<"H">>],
     [first |-> Got(PlainText), second |-> Got(PlainText), hint |-> <<"H">>],
     [first |-> Got(BadIdAnswers), second |-> NoResult, hint |-> <<"H">>],
     [first |-> Got(ControlIdAnswers), second |-> NoResult, hint |-> <<"H">>],
     [first |-> Got(BadJson), second |-> NoResult, hint |-> <<"H">>]}

AnswerDocs ==
    {[lines |-> t, sections |-> ss] :
        t \in AnswerTexts,
        ss \in UNION {[1..k -> AnswerSectionCases] :
                         k \in 1..MaxAnswerSections}}

InitAnswerPdf ==
    /\ a_pc = "start"
    /\ a_bytes \in {"empty", "garbage", "pdf"}
    /\ a_doc \in IF a_bytes = "pdf" THEN AnswerDocs ELSE {NoAnswerDoc}
    /\ a_handle = "none"
    /\ a_idx = 0
    /\ a_calls = 0
    /\ a_all = <<>>
    /\ a_out = Pending
    /\ g_client \in {NoClient} \cup Keys
    /\ g_key \in {NoKey} \cup Keys
    /\ ValidatorIdle
    /\ MergeIdle
    /\ RetryIdle
    /\ ParseIdle
    /\ TableIdle
    /\ MatchIdle
    /\ KeyIdle
    /\ RaceIdle
    /\ ExamIdle
    /\ SessionIdle

\* Mutant: the deterministic table is never taken.
TableIgnored(answers) == FALSE

\* if answers: the deterministic result is returned when it is not empty
TableUsable(answers) == answers # <<>>

\* Lines 171-197: empty bytes give []; fitz.open raises on bytes that are no
\* PDF and nothing catches it; a non-empty deterministic table is returned;
\* otherwise the fallback needs a client and goes through the sections.
AnswerPdfBegin ==
    /\ a_pc = "start"
    /\ \E built \in BOOLEAN :
        LET c == GetClient(g_client, g_key, built)
            answers == _parse_answer_table_deterministic(a_doc.lines)
        IN
        IF a_bytes = "empty"
        THEN /\ a_out' = Returned(<<>>)
             /\ a_pc' = "done"
             /\ UNCHANGED <<g_client, a_handle, a_idx>>
        ELSE IF a_bytes = "garbage"
        THEN /\ a_out' = Raised("FileDataError", "open")
             /\ a_pc' = "done"
             /\ UNCHANGED <<g_client, a_handle, a_idx>>
        ELSE IF TableUsable(answers)
        THEN /\ a_out' = Returned(answers)
             /\ a_pc' = "done"
             /\ a_handle' = "closed"
             /\ UNCHANGED <<g_client, a_idx>>
        ELSE IF c.ret = NoClient
        THEN /\ a_out' = Returned(<<>>)
             /\ a_pc' = "done"
             /\ a_handle' = "closed"
             /\ g_client' = c.cache
             /\ UNCHANGED a_idx
        ELSE /\ a_out' = Pending
             /\ a_pc' = "sections"
             /\ a_handle' = "open"
             /\ g_client' = c.cache
             /\ a_idx' = 1
    /\ UNCHANGED <<a_bytes, a_doc, a_calls, a_all, g_key, validatorVars, raceVars, examVars,
                   sessionVars,
                   tableVars, matchVars, keyVars, mergeVars, retryVars,
                   parseVars>>

\* One pass of the loop over the sections: the records of the section are
\* added, or the exception of _extract_answers_from_text leaves the call.
AnswerPdfSection ==
    /\ a_pc = "sections"
    /\ a_idx <= Len(a_doc.sections)
    /\ LET sec == a_doc.sections[a_idx]
           ans == _extract_answers_from_text(sec.first, sec.second, sec.hint)
       IN  /\ a_calls' = a_calls + ans.calls
           /\ IF ans.raised
              THEN /\ a_out' = Raised(ans.exc, "section")
                   /\ a_pc' = "done"
                   /\ a_handle' = "closed"
                   /\ UNCHANGED <<a_all, a_idx>>
              ELSE /\ a_all' = a_all \o ans.v
                   /\ a_idx' = a_idx + 1
                   /\ UNCHANGED <<a_out, a_pc, a_handle>>
    /\ UNCHANGED <<a_bytes, a_doc, clientVars, validatorVars, raceVars, examVars,
                   sessionVars, tableVars,
                   matchVars, keyVars, mergeVars, retryVars, parseVars>>

\* return all_answers; the finally clause closes the document.
AnswerPdfReturn ==
    /\ a_pc = "sections"
    /\ a_idx > Len(a_doc.sections)
    /\ a_out' = Returned(a_all)
    /\ a_pc' = "done"
    /\ a_handle' = "closed"
    /\ UNCHANGED <<a_bytes, a_doc, a_idx, a_calls, a_all, clientVars,
                   validatorVars, raceVars, examVars,
                   sessionVars, tableVars, matchVars, keyVars, mergeVars,
                   retryVars, parseVars>>

NextAnswerPdf == AnswerPdfBegin \/ AnswerPdfSection \/ AnswerPdfReturn

SpecAnswerPdf == InitAnswerPdf /\ [][NextAnswerPdf]_vars

----------------------------------------------------------------------------
(* _parse_answer_table_deterministic run on answer-table texts             *)

MaxBlocks == 4
MaxRuns == 2

\* The first number of a block of five.
StartIds == {1, 6, 11}

BlockFrom(start) ==
    [j \in 1..GroupSize |-> IntToStr(start + j - 1)] \o GlyphLines

RECURSIVE BlocksLines(_)
BlocksLines(starts) ==
    IF starts = <<>> THEN <<>>
    ELSE BlockFrom(Head(starts)) \o BlocksLines(Tail(starts))

\* A table text: the headers of the first subjects, the column labels when
\* the page has them, then the blocks in reading order.
TableOf(subjects, labels, starts) ==
    [k \in 1..subjects |-> Spaced(SubjectNames[k])]
    \o (IF labels THEN <<NumberLabel, AnswerLabel>> ELSE <<>>)
    \o BlocksLines(starts)

\* Two rows of two subjects in which the number 3 of the first block was
\* extracted as the glyph c3.
GlyphNumberText == [TableText(2, 2) EXCEPT ![7] = <<"c3">>]

\* Two full rows of two subjects and one more block of the first subject.
RemainderText == TableOf(2, TRUE, <<1, 1, 6, 6, 11>>)

TableTexts ==
    {TableOf(k, l, s) :
        k \in 1..3, l \in BOOLEAN, s \in SeqsUpTo(StartIds, MaxBlocks)}
    \cup {GlyphNumberText, FreeText, RemainderText}

InitTable ==
    /\ t_pc = "run"
    /\ t_frame = NoFrame
    /\ t_text \in TableTexts
    /\ t_runs = <<>>
    /\ g_client = NoClient
    /\ g_key \in {NoKey} \cup Keys
    /\ ValidatorIdle
    /\ MergeIdle
    /\ RetryIdle
    /\ ParseIdle
    /\ AnswerIdle
    /\ MatchIdle
    /\ KeyIdle
    /\ RaceIdle
    /\ ExamIdle
    /\ SessionIdle

\* One call of the parser on the text, from the call to the return.
TableRun ==
    /\ t_pc = "run"
    /\ t_runs' = Append(t_runs,
                        [v |-> _parse_answer_table_deterministic(t_text),
                         client |-> g_client])
    /\ t_pc' = IF Len(t_runs) + 1 = MaxRuns THEN "done" ELSE "run"
    /\ UNCHANGED <<t_text, t_frame, clientVars, validatorVars, raceVars,
                   examVars, sessionVars, mergeVars, retryVars,
                   parseVars, answerVars, matchVars, keyVars>>

\* Between two calls the process may build and cache a client ...
TableGetClient ==
    /\ t_pc = "run"
    /\ \E built \in BOOLEAN :
           g_client' = GetClient(g_client, g_key, built).cache
    /\ g_client' # g_client
    /\ UNCHANGED <<g_key, tableVars, validatorVars, raceVars, examVars,
                   sessionVars, mergeVars, retryVars,
                   parseVars, answerVars, matchVars, keyVars>>

\* ... or drop the cached one.
TableResetClient ==
    /\ t_pc = "run"
    /\ g_client # NoClient
    /\ g_client' = reset_client(g_client)
    /\ UNCHANGED <<g_key, tableVars, validatorVars, raceVars, examVars,
                   sessionVars, mergeVars, retryVars,
                   parseVars, answerVars, matchVars, keyVars>>

NextTable == TableRun \/ TableGetClient \/ TableResetClient

SpecTable == InitTable /\ [][NextTable]_vars

----------------------------------------------------------------------------
(* _parse_answer_table_deterministic called again and again, part by part  *)

\* The texts the repeated runs are made on: one and two full rows, a
\* remainder, a glyph among the numbers, no table, headers without
\* tokens, a subject whose ids repeat, and a single block.
CallTexts ==
    {TableText(2, 1), TableText(3, 2), RemainderText, GlyphNumberText,
     FreeText, TableOf(2, TRUE, <<>>), TableOf(2, FALSE, <<1, 1, 1, 1>>),
     TableOf(2, TRUE, <<1>>)}

\* Texts of the calls made between the runs on t_text: one that parses
\* into a table with a remainder, one without a table.
OtherTexts == {RemainderText, FreeText}

\* Mutant: answers is a list that outlives the call.
RowAnswersKept(frame) ==
    frame.answers \o FullRows(frame.tokens, 0, frame.found_subjects)

\* answers = [] and the while loop over the full row groups
RowAnswers(frame) == FullRows(frame.tokens, 0, frame.found_subjects)

\* remaining = tokens[pos:] and the loop over it, appending to answers
RestAnswers(frame) ==
    LET pos == FullRowsEnd(frame.tokens, frame.found_subjects)
    IN  frame.answers
        \o Remainder(SubSeq(frame.tokens, pos + 1, Len(frame.tokens)), 0,
                     frame.found_subjects, 1)

\* The two checks before the return: at least ten records per subject, and
\* the ids of every subject strictly increasing.
TableValid(frame) ==
    /\ ~(Len(frame.answers) < Len(frame.found_subjects) * 10)
    /\ \A k \in DOMAIN frame.found_subjects :
           StrictlyIncreasing(SubjectIds(frame.answers,
                                         frame.found_subjects[k]))

InitCalls ==
    /\ t_pc = "run"
    /\ t_frame = NoFrame
    /\ t_text \in CallTexts
    /\ t_runs = <<>>
    /\ g_client = NoClient
    /\ g_key \in {NoKey} \cup Keys
    /\ ValidatorIdle
    /\ MergeIdle
    /\ RetryIdle
    /\ ParseIdle
    /\ AnswerIdle
    /\ MatchIdle
    /\ KeyIdle
    /\ RaceIdle
    /\ ExamIdle
    /\ SessionIdle

TableOthers ==
    <<clientVars, validatorVars, raceVars, examVars, sessionVars, mergeVars,
      retryVars, parseVars, answerVars, matchVars, keyVars>>

\* The call returns v: a run on t_text is recorded with the cached client
\* and the text of the call before it.
TableReturn(v) ==
    /\ t_runs' = IF t_frame.text = t_text
                 THEN Append(t_runs, [v |-> v, client |-> g_client,
                                      prior |-> t_frame.prior])
                 ELSE t_runs
    /\ t_pc' = IF Len(t_runs') = MaxRuns THEN "done" ELSE "run"

\* _parse_answer_table_deterministic(text) is called, on t_text or on
\* another text; the locals hold what the call before left in them until
\* the call assigns them.
TableEnter ==
    /\ t_pc = "run"
    /\ \E text \in {t_text} \cup OtherTexts :
           t_frame' = [t_frame EXCEPT !.text = text, !.prior = t_frame.text]
    /\ t_pc' = "headers"
    /\ UNCHANGED <<t_text, t_runs, TableOthers>>

\* The subject headers are looked for; fewer than two end the call.
TableHeaders ==
    /\ t_pc = "headers"
    /\ LET found_subjects == FoundSubjects(t_frame.text, SubjectNames)
       IN  /\ t_frame' = [t_frame EXCEPT !.found_subjects = found_subjects]
           /\ IF Len(found_subjects) < 2
              THEN TableReturn(<<>>)
              ELSE t_pc' = "tokens" /\ UNCHANGED t_runs
    /\ UNCHANGED <<t_text, TableOthers>>

\* The tokens after the last label line are collected; none end the call.
TableTokens ==
    /\ t_pc = "tokens"
    /\ LET tokens == Tokens(t_frame.text, DataStart(t_frame.text))
       IN  /\ t_frame' = [t_frame EXCEPT !.tokens = tokens]
           /\ IF tokens = <<>>
              THEN TableReturn(<<>>)
              ELSE t_pc' = "rows" /\ UNCHANGED t_runs
    /\ UNCHANGED <<t_text, TableOthers>>

\* The full row groups are read into answers.
TableRows ==
    /\ t_pc = "rows"
    /\ t_frame' = [t_frame EXCEPT !.answers = RowAnswers(t_frame)]
    /\ t_pc' = "rest"
    /\ UNCHANGED <<t_text, t_runs, TableOthers>>

\* The blocks of the last, incomplete row group are added.
TableRest ==
    /\ t_pc = "rest"
    /\ t_frame' = [t_frame EXCEPT !.answers = RestAnswers(t_frame)]
    /\ t_pc' = "check"
    /\ UNCHANGED <<t_text, t_runs, TableOthers>>

\* The records are checked and returned, or the empty list is.
TableCheck ==
    /\ t_pc = "check"
    /\ TableReturn(IF TableValid(t_frame) THEN t_frame.answers ELSE <<>>)
    /\ UNCHANGED <<t_text, t_frame, TableOthers>>

NextCalls ==
    \/ TableEnter
    \/ TableHeaders
    \/ TableTokens
    \/ TableRows
    \/ TableRest
    \/ TableCheck
    \/ TableGetClient
    \/ TableResetClient

SpecCalls == InitCalls /\ [][NextCalls]_vars

----------------------------------------------------------------------------
(* _match_answer_to_option applied to a token and a list of options        *)

MaxOptions == 3

\* Raw answer tokens: digits with and without padding, numbers without a
\* glyph, a digit inside other text, a run of decimal digits of two scripts,
\* glyphs, whole options, blanks.
AnswerTokens ==
    {<<"1">>, <<"2">>, <<"3">>, <<"1", "0">>, <<"0">>, <<"1", "2">>,
     <<" ", "2", " ">>, <<"A", "2">>, <<"2", ".">>, <<"c2">>, sB, <<"X">>,
     <<"ar3", "2">>, <<" ">>, <<>>}

\* Options: marked by a glyph (padded or not), a bare glyph, and options
\* that start with a decimal digit.
OptionPool ==
    {sA, sB, <<" ">> \o sB, <<"c2">>, <<"c3", " ", "C">>, <<"c10", " ", "J">>,
     <<"2", " ", "x">>, <<"1", "0">>}

OptionLists == UNION {[1..k -> OptionPool] : k \in 2..MaxOptions}

InitMatch ==
    /\ n_pc = "call"
    /\ n_answer \in {StrV(t) : t \in AnswerTokens} \cup {None, IntV(2)}
    /\ n_options \in OptionLists
    /\ n_out = Ok(<<>>)
    /\ ValidatorIdle
    /\ MergeIdle
    /\ ClientIdle
    /\ RetryIdle
    /\ ParseIdle
    /\ AnswerIdle
    /\ TableIdle
    /\ KeyIdle
    /\ RaceIdle
    /\ ExamIdle
    /\ SessionIdle

MatchAnswer ==
    /\ n_pc = "call"
    /\ n_out' = _match_answer_to_option(n_answer, n_options)
    /\ n_pc' = "done"
    /\ UNCHANGED <<n_answer, n_options, validatorVars, raceVars, examVars,
                   sessionVars, mergeVars, clientVars,
                   retryVars, parseVars, answerVars, tableVars, keyVars>>

NextMatch == MatchAnswer

SpecMatch == InitMatch /\ [][NextMatch]_vars

----------------------------------------------------------------------------
(* The cached client across changes of the API key                         *)

MaxClients == 4

KeyValues == {"k1", "k2"}

\* A change of the key: the key is stored in the environment and
\* reset_client() drops the cached client.
set_api_key(cached, api_key) ==
    [key |-> api_key, cache |-> reset_client(cached)]

\* The module is imported with _client = None; the environment may or may
\* not hold a key.
InitKey ==
    /\ k_pc = "run"
    /\ g_client = NoClient
    /\ g_key \in {NoKey} \cup KeyValues
    /\ k_made = 0
    /\ k_id = 0
    /\ k_ret = NoReturn
    /\ k_old = {}
    /\ k_changed = FALSE
    /\ ValidatorIdle
    /\ MergeIdle
    /\ RetryIdle
    /\ ParseIdle
    /\ AnswerIdle
    /\ TableIdle
    /\ MatchIdle
    /\ RaceIdle
    /\ ExamIdle
    /\ SessionIdle

\* The key field of the home view receives a key that differs from the
\* stored one, the empty one included (views/home_view.py; the handler
\* set_api_key of api/routes.py runs the same two statements). with any key, the empty one included.
SetApiKey ==
    /\ k_pc = "run"
    /\ \E api_key \in {NoKey} \cup KeyValues :
        LET r == set_api_key(g_client, api_key) IN
        /\ g_key' = r.key
        /\ g_client' = r.cache
        /\ k_id' = IF r.cache = NoClient THEN 0 ELSE k_id
    /\ k_old' = k_old \cup (IF k_id = 0 THEN {} ELSE {k_id})
    /\ k_changed' = TRUE
    /\ UNCHANGED <<k_pc, k_made, k_ret, validatorVars, raceVars, examVars,
                   sessionVars, mergeVars, retryVars,
                   parseVars, answerVars, tableVars, matchVars>>

\* A call of _get_client(): the cached client, or a client constructed from
\* the environment's key and cached, or None.
KeyGetClient ==
    /\ k_pc = "run"
    /\ \E built \in BOOLEAN :
        LET c == GetClient(g_client, g_key, built)
            fresh == g_client = NoClient /\ c.cache # NoClient
            id == IF fresh THEN k_made + 1 ELSE k_id
        IN
        /\ fresh => k_made < MaxClients
        /\ g_client' = c.cache
        /\ k_made' = IF fresh THEN k_made + 1 ELSE k_made
        /\ k_id' = id
        /\ k_ret' = [client |-> c.ret,
                     id |-> IF c.ret = NoClient THEN 0 ELSE id,
                     fresh |-> fresh,
                     first |-> k_changed]
    /\ k_changed' = FALSE
    /\ UNCHANGED <<k_pc, g_key, k_old, validatorVars, raceVars, examVars,
                   sessionVars, mergeVars, retryVars,
                   parseVars, answerVars, tableVars, matchVars>>

NextKey == SetApiKey \/ KeyGetClient

SpecKey == InitKey /\ [][NextKey]_vars

----------------------------------------------------------------------------
(* _get_client() step by step, overlapping changes of the key              *)

MaxCalls == 1
MaxKeyChanges == 2

\* The module is imported with _client = None; a client cached before the
\* first change was built from the key the environment holds.
InitRace ==
    /\ g_key \in {NoKey} \cup KeyValues
    /\ g_client \in {NoClient} \cup ({g_key} \ {NoKey})
    /\ w_pc = [t \in Threads |-> "idle"]
    /\ w_key = [t \in Threads |-> NoKey]
    /\ w_built = [t \in Threads |-> NoClient]
    /\ w_ret = [t \in Threads |-> NoClient]
    /\ w_calls = [t \in Threads |-> 0]
    /\ x_pc = "idle"
    /\ x_changes = 0
    /\ ValidatorIdle
    /\ MergeIdle
    /\ RetryIdle
    /\ ParseIdle
    /\ AnswerIdle
    /\ TableIdle
    /\ MatchIdle
    /\ KeyIdle
    /\ ExamIdle
    /\ SessionIdle

RaceOthers ==
    <<validatorVars, mergeVars, retryVars, parseVars, answerVars, tableVars,
      matchVars, keyVars, examVars, sessionVars>>

\* A thread calls _get_client().
GcEnter(t) ==
    /\ w_pc[t] = "idle"
    /\ w_calls[t] < MaxCalls
    /\ w_calls' = [w_calls EXCEPT ![t] = @ + 1]
    /\ w_pc' = [w_pc EXCEPT ![t] = "test"]
    /\ UNCHANGED <<clientVars, w_key, w_built, w_ret, x_pc, x_changes,
                   RaceOthers>>

\* if _client is not None:
GcTest(t) ==
    /\ w_pc[t] = "test"
    /\ w_pc' = [w_pc EXCEPT ![t] = IF g_client # NoClient THEN "cached"
                                     ELSE "read"]
    /\ UNCHANGED <<clientVars, w_key, w_built, w_ret, w_calls, x_pc,
                   x_changes, RaceOthers>>

\* return _client, which loads the global a second time
GcReturnCached(t) ==
    /\ w_pc[t] = "cached"
    /\ w_ret' = [w_ret EXCEPT ![t] = g_client]
    /\ w_pc' = [w_pc EXCEPT ![t] = "idle"]
    /\ UNCHANGED <<clientVars, w_key, w_built, w_calls, x_pc, x_changes,
                   RaceOthers>>

\* api_key = os.environ.get("OPENAI_API_KEY"); without a key None is
\* returned.
GcReadKey(t) ==
    /\ w_pc[t] = "read"
    /\ w_key' = [w_key EXCEPT ![t] = g_key]
    /\ IF g_key = NoKey
       THEN /\ w_ret' = [w_ret EXCEPT ![t] = NoClient]
            /\ w_pc' = [w_pc EXCEPT ![t] = "idle"]
       ELSE /\ w_pc' = [w_pc EXCEPT ![t] = "build"]
            /\ UNCHANGED w_ret
    /\ UNCHANGED <<clientVars, w_built, w_calls, x_pc, x_changes, RaceOthers>>

\* OpenAI(api_key=api_key): a client built from the key the thread read,
\* or an exception, after which None is returned.
GcBuild(t) ==
    /\ w_pc[t] = "build"
    /\ \E built \in BOOLEAN :
        IF built
        THEN /\ w_built' = [w_built EXCEPT ![t] = w_key[t]]
             /\ w_pc' = [w_pc EXCEPT ![t] = "store"]
             /\ UNCHANGED w_ret
        ELSE /\ w_ret' = [w_ret EXCEPT ![t] = NoClient]
             /\ w_pc' = [w_pc EXCEPT ![t] = "idle"]
             /\ UNCHANGED w_built
    /\ UNCHANGED <<clientVars, w_key, w_calls, x_pc, x_changes, RaceOthers>>

\* _client = <the client constructed>
GcStore(t) ==
    /\ w_pc[t] = "store"
    /\ g_client' = w_built[t]
    /\ w_pc' = [w_pc EXCEPT ![t] = "built"]
    /\ UNCHANGED <<g_key, w_key, w_built, w_ret, w_calls, x_pc, x_changes,
                   RaceOthers>>

\* return _client after the assignment
GcReturnBuilt(t) ==
    /\ w_pc[t] = "built"
    /\ w_ret' = [w_ret EXCEPT ![t] = g_client]
    /\ w_pc' = [w_pc EXCEPT ![t] = "idle"]
    /\ UNCHANGED <<clientVars, w_key, w_built, w_calls, x_pc, x_changes,
                   RaceOthers>>

\* os.environ["OPENAI_API_KEY"] = input_key
KeySet ==
    /\ x_pc = "idle"
    /\ x_changes < MaxKeyChanges
    /\ \E api_key \in {NoKey} \cup KeyValues : g_key' = api_key
    /\ x_pc' = "reset"
    /\ x_changes' = x_changes + 1
    /\ UNCHANGED <<g_client, w_pc, w_key, w_built, w_ret, w_calls,
                   RaceOthers>>

\* reset_client()
KeyReset ==
    /\ x_pc = "reset"
    /\ g_client' = reset_client(g_client)
    /\ x_pc' = "idle"
    /\ UNCHANGED <<g_key, w_pc, w_key, w_built, w_ret, w_calls, x_changes,
                   RaceOthers>>

NextRace ==
    \/ \E t \in Threads :
          \/ GcEnter(t)
          \/ GcTest(t)
          \/ GcReturnCached(t)
          \/ GcReadKey(t)
          \/ GcBuild(t)
          \/ GcStore(t)
          \/ GcReturnBuilt(t)
    \/ KeySet
    \/ KeyReset

SpecRace == InitRace /\ [][NextRace]_vars

----------------------------------------------------------------------------
(* Saving answers and scoring an exam                                      *)

\* A dict as a function on its keys.
DictSet(d, k, v) == [x \in DOMAIN d \cup {k} |-> IF x = k THEN v ELSE d[x]]
DictPop(d, k) == [x \in DOMAIN d \ {k} |-> d[x]]
DictGet(d, k, default) == IF k \in DOMAIN d THEN d[k] ELSE default

\* None as the value of a radio widget and of user_answers.get(...); like
\* the empty string it is falsy and no option of a question.
NoChoice == <<>>

\* _save_current_answer(exam_state, question_id), on user_answers and the
\* radio values of st.session_state: a truthy widget value is stored under
\* the question id.
_save_current_answer(user_answers, radio, question_id) ==
    IF question_id \in DOMAIN radio /\ radio[question_id] # NoChoice
    THEN DictSet(user_answers, question_id, radio[question_id])
    ELSE user_answers

\* question_card.render(question, ..., saved_answer): the widget key is
\* made of the question id alone; a key not yet in st.session_state is
\* seeded with a saved answer that is an option, and st.radio returns
\* the value under the key, which for a new key is its default, the
\* current value when that is an option and None otherwise.
qcard_render(question, saved_answer, radio) ==
    LET radio_key == question.id
        seeded == IF /\ radio_key \notin DOMAIN radio
                     /\ saved_answer \in Range(question.options)
                  THEN DictSet(radio, radio_key, saved_answer)
                  ELSE radio
        current_val == DictGet(seeded, radio_key, saved_answer)
        default == IF current_val \in Range(question.options)
                   THEN current_val ELSE NoChoice
        drawn == IF radio_key \in DOMAIN seeded THEN seeded
                 ELSE DictSet(seeded, radio_key, default)
    IN  [radio |-> drawn, selected |-> drawn[radio_key]]

\* saved as render reads it for the question at position i (1-based)
SavedAnswer(questions, user_answers, i) ==
    DictGet(user_answers, questions[i].id, NoChoice)

\* One run of render() in which no button is pressed, on the exam state
\* st = [index, answers, radio]: the index is brought into range, the card
\* of the current question is drawn, and a truthy selection is stored in
\* user_answers under the id of the current question.
RenderQuestion(questions, st) ==
    LET total == Len(questions)
        upper == IF st.index < total - 1 THEN st.index ELSE total - 1
        current_idx == IF upper > 0 THEN upper ELSE 0
        current_q == questions[current_idx + 1]
        saved == SavedAnswer(questions, st.answers, current_idx + 1)
        card == qcard_render(current_q, saved, st.radio)
    IN  [index |-> current_idx,
         radio |-> card.radio,
         answers |-> IF card.selected # NoChoice
                     THEN DictSet(st.answers, current_q.id, card.selected)
                     ELSE st.answers]

\* Ties of correct_count / n * 100 at the third decimal whose double lies
\* above, or below, the exact quotient, as <<correct_count, n>>, for lists
\* of up to 1000 questions; every other tie is a double equal to the exact
\* quotient.
TiesAbove ==
    {<<49, 160>>, <<93, 160>>, <<98, 320>>, <<186, 320>>, <<147, 480>>,
     <<279, 480>>, <<196, 640>>, <<372, 640>>, <<109, 800>>, <<245, 800>>,
     <<249, 800>>, <<461, 800>>, <<465, 800>>, <<469, 800>>, <<473, 800>>,
     <<294, 960>>, <<558, 960>>}
TiesBelow ==
    {<<23, 160>>, <<51, 160>>, <<87, 160>>, <<46, 320>>, <<102, 320>>,
     <<174, 320>>, <<69, 480>>, <<153, 480>>, <<261, 480>>, <<92, 640>>,
     <<204, 640>>, <<348, 640>>, <<115, 800>>, <<203, 800>>, <<207, 800>>,
     <<251, 800>>, <<255, 800>>, <<427, 800>>, <<431, 800>>, <<435, 800>>,
     <<439, 800>>, <<138, 960>>, <<306, 960>>, <<522, 960>>}

\* round(x, 2) of the double x = correct_count / n * 100, in hundredths:
\* the nearest hundredth, and on an exact tie the even one (3.125 gives
\* 3.12).
RoundedScore(correct_count, n) ==
    LET scaled == correct_count * 10000
        below == scaled \div n
        twice == 2 * (scaled % n)
    IN  IF twice < n THEN below
        ELSE IF twice > n THEN below + 1
        ELSE IF <<correct_count, n>> \in TiesAbove THEN below + 1
        ELSE IF <<correct_count, n>> \in TiesBelow THEN below
        ELSE below + (below % 2)

\* calculate_score(questions, user_answers), in hundredths of a point
calculate_score(questions, user_answers) ==
    IF questions = <<>> THEN 0
    ELSE LET correct_count ==
                 Cardinality({i \in DOMAIN questions :
                     /\ questions[i].answer # <<>>
                     /\ questions[i].id \in DOMAIN user_answers
                     /\ user_answers[questions[i].id] = questions[i].answer})
         IN  RoundedScore(correct_count, Len(questions))

\* get_incorrect_questions(questions, user_answers): the questions with an
\* answer that user_answers does not hold under their id, in order.
RECURSIVE get_incorrect_questions(_, _)
get_incorrect_questions(questions, user_answers) ==
    IF questions = <<>> THEN <<>>
    ELSE LET q == Head(questions)
             rest == get_incorrect_questions(Tail(questions), user_answers)
         IN  IF q.answer = <<>> THEN rest
             ELSE IF DictGet(user_answers, q.id, NoChoice) # q.answer
                  THEN <<q>> \o rest
                  ELSE rest

\* Question lists of an exam: two subjects that both number their
\* questions from 1, and one subject with an unanswered question.
Exams ==
    {<<MkQuestion(1, <<"A">>, TwoOptions, sA, <<>>),
       MkQuestion(2, <<"A">>, TwoOptions, sB, <<>>),
       MkQuestion(1, <<"B">>, TwoOptions, sB, <<>>)>>,
     <<MkQuestion(1, <<"A">>, TwoOptions, sA, <<>>),
       MkQuestion(2, <<"A">>, TwoOptions, <<>>, <<>>)>>}

\* The session after _start_exam(questions), the callback of a start button
\* of the home page, on a new session: the question list is stored with a
\* new ExamState() and the page becomes "exam"; the script has not run on
\* that page yet, so no radio widget has been drawn.
InitExam ==
    /\ e_pc = "exam"
    /\ e_rerun = TRUE
    /\ e_questions \in Exams
    /\ e_index = 0
    /\ e_answers = <<>>
    /\ e_radio = <<>>
    /\ e_confirm = FALSE
    /\ e_submitted = FALSE
    /\ e_given = [i \in DOMAIN e_questions |-> NoChoice]
    /\ e_score = 0
    /\ e_incorrect = <<>>
    /\ ValidatorIdle
    /\ MergeIdle
    /\ ClientIdle
    /\ RetryIdle
    /\ ParseIdle
    /\ AnswerIdle
    /\ TableIdle
    /\ MatchIdle
    /\ KeyIdle
    /\ RaceIdle
    /\ SessionIdle

ExamOthers ==
    <<validatorVars, mergeVars, clientVars, retryVars, parseVars, answerVars,
      tableVars, matchVars, keyVars, raceVars, sessionVars>>

ExamNow == [index |-> e_index, answers |-> e_answers, radio |-> e_radio]
CurrentQ == e_questions[e_index + 1]

\* A page is on screen: the last run of the script drew it to its end, so
\* its widgets can be used.
ExamShown == e_pc = "exam" /\ ~e_rerun
ResultShown == e_pc = "result" /\ ~e_rerun
HomeShown == e_pc = "home" /\ ~e_rerun

\* A run of render() that draws the page from the state st to its end.
Redraw(st) ==
    LET after == RenderQuestion(e_questions, st)
    IN  /\ e_index' = after.index
        /\ e_answers' = after.answers
        /\ e_radio' = after.radio
        /\ e_rerun' = FALSE

\* _go_to_result() on the user_answers given: the exam is marked
\* submitted, scored, the page becomes "result" and the run ends in
\* st.rerun().
_go_to_result(user_answers) ==
    /\ e_submitted' = TRUE
    /\ e_score' = calculate_score(e_questions, user_answers)
    /\ e_incorrect' = get_incorrect_questions(e_questions, user_answers)
    /\ e_pc' = "result"
    /\ e_answers' = user_answers
    /\ e_rerun' = TRUE

\* render() of the exam page: a run of the script in which no widget
\* changed, the run st.rerun() or a callback asked for included.
render ==
    /\ e_pc = "exam"
    /\ Redraw(ExamNow)
    /\ UNCHANGED <<e_pc, e_questions, e_confirm, e_submitted, e_given,
                   e_score, e_incorrect, ExamOthers>>

\* The user picks an option of the question on screen: its radio key takes
\* the option and render() runs to its end.
ChooseOption ==
    /\ ExamShown
    /\ \E answer \in Range(CurrentQ.options) :
        /\ Redraw([ExamNow EXCEPT !.radio = DictSet(e_radio, CurrentQ.id, answer)])
        /\ e_given' = [e_given EXCEPT ![e_index + 1] = answer]
    /\ UNCHANGED <<e_pc, e_questions, e_confirm, e_submitted, e_score,
                   e_incorrect, ExamOthers>>

\* A number button of the sidebar: the index is set and the run ends in
\* st.rerun() before the card is drawn.
NavButton ==
    /\ ExamShown
    /\ \E q_idx \in 0..(Len(e_questions) - 1) : e_index' = q_idx
    /\ e_rerun' = TRUE
    /\ UNCHANGED <<e_pc, e_questions, e_answers, e_radio, e_confirm,
                   e_submitted, e_given, e_score, e_incorrect, ExamOthers>>

\* The state when a run reaches the buttons below the card and one of them
\* is pressed: the card is drawn and _save_current_answer has run.
BelowCard ==
    LET shown == RenderQuestion(e_questions, ExamNow)
    IN  [shown EXCEPT !.answers =
            _save_current_answer(shown.answers, shown.radio,
                                 e_questions[shown.index + 1].id)]

\* The "previous" button: the answer is saved, the index lowered, and the
\* run ends in st.rerun().
PrevButton ==
    /\ ExamShown
    /\ e_index > 0
    /\ e_index' = BelowCard.index - 1
    /\ e_answers' = BelowCard.answers
    /\ e_radio' = BelowCard.radio
    /\ e_rerun' = TRUE
    /\ UNCHANGED <<e_pc, e_questions, e_confirm, e_submitted, e_given,
                   e_score, e_incorrect, ExamOthers>>

\* The "next" button: the answer is saved, the index raised, and the run
\* ends in st.rerun().
NextButton ==
    /\ ExamShown
    /\ e_index < Len(e_questions) - 1
    /\ e_index' = BelowCard.index + 1
    /\ e_answers' = BelowCard.answers
    /\ e_radio' = BelowCard.radio
    /\ e_rerun' = TRUE
    /\ UNCHANGED <<e_pc, e_questions, e_confirm, e_submitted, e_given,
                   e_score, e_incorrect, ExamOthers>>

\* The submit button below the card of the last question
SubmitLast ==
    /\ ExamShown
    /\ ~(e_index < Len(e_questions) - 1)
    /\ _go_to_result(BelowCard.answers)
    /\ e_radio' = BelowCard.radio
    /\ UNCHANGED <<e_questions, e_index, e_confirm, e_given, ExamOthers>>

\* The submit button of the header, above the card
SubmitHeader ==
    /\ ExamShown
    /\ _go_to_result(_save_current_answer(e_answers, e_radio, CurrentQ.id))
    /\ UNCHANGED <<e_questions, e_index, e_radio, e_confirm, e_given,
                   ExamOthers>>

\* The submit button of the sidebar: with unanswered questions, counted
\* before the current answer is saved, it asks for confirmation and the
\* run ends in st.rerun(); without, it goes to the result.
SubmitSidebar ==
    /\ ExamShown
    /\ LET unanswered == Len(e_questions) - Cardinality(DOMAIN e_answers)
           saved == _save_current_answer(e_answers, e_radio, CurrentQ.id)
       IN  IF unanswered > 0
           THEN /\ e_confirm' = TRUE
                /\ e_answers' = saved
                /\ e_rerun' = TRUE
                /\ UNCHANGED <<e_pc, e_submitted, e_score, e_incorrect>>
           ELSE /\ _go_to_result(saved)
                /\ UNCHANGED e_confirm
    /\ UNCHANGED <<e_questions, e_index, e_radio, e_given, ExamOthers>>

\* The confirmation's "submit" button
ConfirmYes ==
    /\ ExamShown
    /\ e_confirm
    /\ e_confirm' = FALSE
    /\ _go_to_result(e_answers)
    /\ UNCHANGED <<e_questions, e_index, e_radio, e_given, ExamOthers>>

\* The confirmation's "cancel" button: the flag is cleared and the run ends
\* in st.rerun().
ConfirmNo ==
    /\ ExamShown
    /\ e_confirm
    /\ e_confirm' = FALSE
    /\ e_rerun' = TRUE
    /\ UNCHANGED <<e_pc, e_questions, e_index, e_answers, e_radio,
                   e_submitted, e_given, e_score, e_incorrect, ExamOthers>>

\* render() of the result page: the run that is due draws the page; it
\* changes nothing of the session.
result_render ==
    /\ e_pc = "result"
    /\ e_rerun
    /\ e_rerun' = FALSE
    /\ UNCHANGED <<e_pc, e_questions, e_index, e_answers, e_radio, e_confirm,
                   e_submitted, e_given, e_score, e_incorrect, ExamOthers>>

\* _restart_exam(), the callback of the result page's "again" button: a new
\* ExamState(), the score and the incorrect list cleared, the radio keys of
\* the questions deleted, the page "exam"; confirm_submit stays as it is.
\* The script runs after the callback.
_restart_exam ==
    /\ ResultShown
    /\ e_index' = 0
    /\ e_answers' = <<>>
    /\ e_submitted' = FALSE
    /\ e_score' = 0
    /\ e_incorrect' = <<>>
    /\ e_radio' = [k \in DOMAIN e_radio \ {e_questions[i].id :
                                              i \in DOMAIN e_questions}
                      |-> e_radio[k]]
    /\ e_given' = [i \in DOMAIN e_questions |-> NoChoice]
    /\ e_pc' = "exam"
    /\ e_rerun' = TRUE
    /\ UNCHANGED <<e_questions, e_confirm, ExamOthers>>

\* _go_home(), the callback of the result page's "home" button: questions,
\* exam_state, final_score, incorrect_questions, confirm_submit and every
\* radio key are deleted and the page becomes "home". The deleted entries
\* read as their defaults (no question, no answer, score 0.0).
_go_home ==
    /\ ResultShown
    /\ e_questions' = <<>>
    /\ e_index' = 0
    /\ e_answers' = <<>>
    /\ e_submitted' = FALSE
    /\ e_score' = 0
    /\ e_incorrect' = <<>>
    /\ e_confirm' = FALSE
    /\ e_radio' = <<>>
    /\ e_given' = <<>>
    /\ e_pc' = "home"
    /\ e_rerun' = TRUE
    /\ UNCHANGED ExamOthers

\* render() of the home page: the run that is due draws the page.
home_render ==
    /\ e_pc = "home"
    /\ e_rerun
    /\ e_rerun' = FALSE
    /\ UNCHANGED <<e_pc, e_questions, e_index, e_answers, e_radio, e_confirm,
                   e_submitted, e_given, e_score, e_incorrect, ExamOthers>>

\* _start_exam(questions), the callback of a start button of the home page:
\* the questions are stored with a new ExamState(), the score and the
\* incorrect list cleared, the page "exam"; radio keys and confirm_submit
\* stay as they are. The script runs after the callback.
_start_exam ==
    /\ HomeShown
    /\ e_questions' \in Exams
    /\ e_index' = 0
    /\ e_answers' = <<>>
    /\ e_submitted' = FALSE
    /\ e_score' = 0
    /\ e_incorrect' = <<>>
    /\ e_given' = [i \in DOMAIN e_questions' |-> NoChoice]
    /\ e_pc' = "exam"
    /\ e_rerun' = TRUE
    /\ UNCHANGED <<e_radio, e_confirm, ExamOthers>>

NextExam ==
    \/ render
    \/ ChooseOption
    \/ NavButton
    \/ PrevButton
    \/ NextButton
    \/ SubmitLast
    \/ SubmitHeader
    \/ SubmitSidebar
    \/ ConfirmYes
    \/ ConfirmNo
    \/ result_render
    \/ _restart_exam
    \/ _go_home
    \/ home_render
    \/ _start_exam

SpecExam == InitExam /\ [][NextExam]_vars

----------------------------------------------------------------------------
(* The session store                                                       *)

SESSION_TTL == 3600

MaxSessions == 1
MaxTicks == 3

\* _new_state(): the API key and, standing for the other entries, the
\* question list.
_new_state == [api_key |-> "", questions |-> ""]

SessionKeys == {"api_key", "questions"}

\* time.time() - _timestamps[sid] > SESSION_TTL
IsExpired(now, ts) == now - ts > SESSION_TTL

\* The application starts with no session.
InitSession ==
    /\ s_pc = "run"
    /\ s_now = 0
    /\ s_ticks = 0
    /\ s_sessions = <<>>
    /\ s_timestamps = <<>>
    /\ s_made = 0
    /\ s_sweep = -1
    /\ s_dead = {}
    /\ s_ret = NoSession
    /\ ValidatorIdle
    /\ MergeIdle
    /\ ClientIdle
    /\ RetryIdle
    /\ ParseIdle
    /\ AnswerIdle
    /\ TableIdle
    /\ MatchIdle
    /\ KeyIdle
    /\ RaceIdle
    /\ ExamIdle

SessionOthers ==
    <<validatorVars, mergeVars, clientVars, retryVars, parseVars, answerVars,
      tableVars, matchVars, keyVars, raceVars, examVars>>

\* create_session(): a new id, never used before.
CreateSession ==
    /\ s_pc = "run"
    /\ s_made < MaxSessions
    /\ s_made' = s_made + 1
    /\ s_sessions' = DictSet(s_sessions, s_made + 1, _new_state)
    /\ s_timestamps' = DictSet(s_timestamps, s_made + 1, s_now)
    /\ UNCHANGED <<s_pc, s_now, s_ticks, s_sweep, s_dead, s_ret,
                   SessionOthers>>

\* get_session(sid): None for an unknown id; an expired session is deleted
\* and None returned; otherwise the timestamp is renewed and the session
\* returned.
GetSession(sid) ==
    /\ s_pc = "run"
    /\ IF sid \notin DOMAIN s_sessions
       THEN /\ s_ret' = [sid |-> sid, found |-> FALSE, dead |-> sid \in s_dead]
            /\ UNCHANGED <<s_sessions, s_timestamps>>
       ELSE IF IsExpired(s_now, s_timestamps[sid])
       THEN /\ s_sessions' = DictPop(s_sessions, sid)
            /\ s_timestamps' = DictPop(s_timestamps, sid)
            /\ s_ret' = [sid |-> sid, found |-> FALSE, dead |-> sid \in s_dead]
       ELSE /\ s_timestamps' = DictSet(s_timestamps, sid, s_now)
            /\ s_ret' = [sid |-> sid, found |-> TRUE, dead |-> sid \in s_dead]
            /\ UNCHANGED s_sessions
    /\ UNCHANGED <<s_pc, s_now, s_ticks, s_made, s_sweep, s_dead,
                   SessionOthers>>

\* put(sid, key, value): a known session gets the value and a new
\* timestamp.
Put(sid, key, value) ==
    /\ s_pc = "run"
    /\ IF sid \in DOMAIN s_sessions
       THEN /\ s_sessions' =
                  DictSet(s_sessions, sid, [s_sessions[sid] EXCEPT ![key] = value])
            /\ s_timestamps' = DictSet(s_timestamps, sid, s_now)
       ELSE UNCHANGED <<s_sessions, s_timestamps>>
    /\ UNCHANGED <<s_pc, s_now, s_ticks, s_made, s_sweep, s_dead, s_ret,
                   SessionOthers>>

\* reset(sid): a known session gets a new state that keeps the API key,
\* and a new timestamp.
Reset(sid) ==
    /\ s_pc = "run"
    /\ IF sid \in DOMAIN s_sessions
       THEN /\ s_sessions' =
                  DictSet(s_sessions, sid,
                          [_new_state EXCEPT !.api_key = s_sessions[sid].api_key])
            /\ s_timestamps' = DictSet(s_timestamps, sid, s_now)
       ELSE UNCHANGED <<s_sessions, s_timestamps>>
    /\ UNCHANGED <<s_pc, s_now, s_ticks, s_made, s_sweep, s_dead, s_ret,
                   SessionOthers>>

\* cleanup_expired(): now = time.time(), read before the lock is taken
CleanupRead ==
    /\ s_pc = "run"
    /\ s_sweep = -1
    /\ s_sweep' = s_now
    /\ UNCHANGED <<s_pc, s_now, s_ticks, s_sessions, s_timestamps, s_made,
                   s_dead, s_ret, SessionOthers>>

\* cleanup_expired(): under the lock, every session older than SESSION_TTL
\* at the time read is deleted.
CleanupSweep ==
    /\ s_pc = "run"
    /\ s_sweep >= 0
    /\ LET expired == {sid \in DOMAIN s_timestamps :
                          IsExpired(s_sweep, s_timestamps[sid])}
       IN  /\ s_sessions' = [sid \in DOMAIN s_sessions \ expired |->
                                s_sessions[sid]]
           /\ s_timestamps' = [sid \in DOMAIN s_timestamps \ expired |->
                                  s_timestamps[sid]]
    /\ s_sweep' = -1
    /\ UNCHANGED <<s_pc, s_now, s_ticks, s_made, s_dead, s_ret,
                   SessionOthers>>

\* Time passes: a second or a full SESSION_TTL.  A session whose last
\* access is then more than SESSION_TTL seconds ago is noted as expired.
Tick ==
    /\ s_pc = "run"
    /\ s_ticks < MaxTicks
    /\ \E d \in {1, SESSION_TTL} :
        /\ s_now' = s_now + d
        /\ s_dead' = s_dead \cup {sid \in DOMAIN s_timestamps :
                                     IsExpired(s_now + d, s_timestamps[sid])}
    /\ s_ticks' = s_ticks + 1
    /\ UNCHANGED <<s_pc, s_sessions, s_timestamps, s_made, s_sweep, s_ret,
                   SessionOthers>>

NextSession ==
    \/ CreateSession
    \/ \E sid \in 1..MaxSessions :
          \/ GetSession(sid)
          \/ \E key \in SessionKeys : Put(sid, key, "v")
          \/ Reset(sid)
    \/ CleanupRead
    \/ CleanupSweep
    \/ Tick

SpecSession == InitSession /\ [][NextSession]_vars

----------------------------------------------------------------------------
(* Claims about the validator                                              *)

\* The two construction invariants of a Question.
QuestionValid(q) ==
    /\ q.answer = <<>> \/ InList(q.answer, q.options)
    /\ Len(q.options) >= 2

\* An item whose answer is neither empty nor one of its options when the
\* constructor sees it: the stripped answer is an option, the answer is not.
PaddedAnswerItem ==
    MkItem(IntV(1), StrV(<<"S">>), StrV(<<"Q">>), ListV(TwoOptions),
           StrV(<<" ">> \o sB), StrV(<<>>), Absent)

\* An item with a single option that no split can widen.
OneOptionItem ==
    MkItem(IntV(1), StrV(<<"S">>), StrV(<<"Q">>), ListV(<<sA>>),
           StrV(<<>>), StrV(<<>>), Absent)

\* C1: every Question in the validator's output has an answer that is empty
\* or one of its options, and at least two options; an item that breaks
\* either condition at construction is not in the output.
C1_ConstructedQuestionsValid ==
    v_out.kind = "list" =>
        /\ \A i \in DOMAIN v_out.questions : QuestionValid(v_out.questions[i])
        /\ \A i \in DOMAIN v_resp.items :
               v_resp.items[i] \in {PaddedAnswerItem, OneOptionItem} =>
                   \A j \in DOMAIN v_out.questions :
                       v_out.questions[j].id # v_resp.items[i].id.n

\* C1 witness: a response with a kept item and an item rejected at
\* construction has been validated.
C1_Witness ==
    /\ v_pc = "done"
    /\ v_out.kind = "list"
    /\ Len(v_resp.items) = 2
    /\ Len(v_out.questions) = 1
    /\ \E i \in DOMAIN v_resp.items : v_resp.items[i] = PaddedAnswerItem

----------------------------------------------------------------------------
(* Claims about merge_answers                                              *)

MergeReturned == m_pc = "done" /\ ~m_out.raised

\* C2: every Question merge_answers returns has an answer that is empty or
\* one of that Question's own options.
C2_MergeAnswerSafe ==
    MergeReturned =>
        \A i \in DOMAIN m_out.v :
            \/ m_out.v[i].answer = <<>>
            \/ InList(m_out.v[i].answer, m_out.v[i].options)

\* C2 witness: a record whose raw token is no option ("X", matched by
\* nothing) and one whose token needed conversion have been merged.
C2_Witness ==
    /\ MergeReturned
    /\ Len(m_out.v) = 2
    /\ \E i \in DOMAIN m_answers : m_answers[i].answer = StrV(<<"X">>)
    /\ m_out.v[1].answer = sB
    /\ m_questions[1].answer = <<>>
    /\ m_out.v[2].answer = <<>>
    /\ m_questions[2].answer # <<>>

\* C3: the output has the length of the question list and position i holds
\* the Question of input position i, answer and explanation apart.
C3_MergeOrderPreserving ==
    MergeReturned =>
        /\ Len(m_out.v) = Len(m_questions)
        /\ \A i \in DOMAIN m_questions :
               /\ m_out.v[i].id = m_questions[i].id
               /\ m_out.v[i].subject = m_questions[i].subject
               /\ m_out.v[i].question_text = m_questions[i].question_text
               /\ m_out.v[i].options = m_questions[i].options

\* C3 witness: two different questions, the first without a matching record
\* and the second with one, have been merged.
C3_Witness ==
    /\ MergeReturned
    /\ Len(m_questions) = 2
    /\ m_questions[1] # m_questions[2]
    /\ LookupInfo(m_answers, m_questions[1]) = 0
    /\ LookupInfo(m_answers, m_questions[2]) # 0
    /\ m_out.v[2].answer # m_questions[2].answer

\* C4: merge_answers returns a list for every input, records with an
\* integer answer included; it never raises.
C4_MergeTotal == m_pc = "done" => ~m_out.raised

----------------------------------------------------------------------------
(* Claims about _call_openai_with_retry                                    *)

\* C10: the call never raises, makes a bounded number of API attempts, and
\* returns the text of its first successful attempt, or None when no
\* attempt succeeded.
C10_RetryNeverRaises ==
    /\ r_pc # "raised"
    /\ Len(r_log) <= _MAX_API_RETRIES
    /\ r_pc = "loop" => Len(r_log) < _MAX_API_RETRIES
    /\ r_pc = "done" =>
          LET ok == {i \in DOMAIN r_log : r_log[i].kind = "ok"} IN
          IF ok = {} THEN r_result = "none"
          ELSE /\ ok = {Len(r_log)}
               /\ r_result = r_log[Len(r_log)].text

\* C10 witness: a rate-limit error, then a transient API error, then a
\* success whose text is returned.
C10_Witness ==
    /\ r_pc = "done"
    /\ Len(r_log) = 3
    /\ r_log[1].kind = "ratelimit"
    /\ r_log[2].kind = "api"
    /\ r_log[3].kind = "ok"
    /\ r_result = "t2"

----------------------------------------------------------------------------
(* Claims about parse_pdf                                                  *)

ParseDone == p_pc = "done"
FannedOut == p_worker # <<>>

\* C6: parse_pdf raises in each of three cases, each with its own kind of
\* error: empty bytes, more than MAX_PDF_PAGES pages, and a document that
\* carries no text.  Stated for calls that have a client.
C6_DocumentLevelErrors ==
    (ParseDone /\ p_out.msg # "client") =>
        /\ p_bytes = "empty" => p_out = Raised("ValueError", "empty")
        /\ (p_bytes = "pdf" /\ p_doc.pages > MAX_PDF_PAGES) =>
               p_out = Raised("ValueError", "pages")
        /\ (p_bytes = "pdf" /\ p_doc.pages <= MAX_PDF_PAGES /\ p_doc.text = 0) =>
               p_out = Raised("ValueError", "scanned")

\* C7: non-empty bytes that cannot be opened make parse_pdf fail; it does
\* not return a list.
C7_UnopenableDocumentFails ==
    (ParseDone /\ p_bytes = "garbage") => p_out.kind = "raise"

\* What section i contributes: its worker's list, nothing when it raised.
SectionResult(i) ==
    LET f == _extract_questions_from_text(p_doc.sections[i].first,
                                          p_doc.sections[i].second)
    IN  IF f.raised THEN <<>> ELSE f.v

Count(q, seq) == Cardinality({i \in DOMAIN seq : seq[i] = q})

RECURSIVE CountInSections(_, _)
CountInSections(q, n) ==
    IF n = 0 THEN 0
    ELSE CountInSections(q, n - 1) + Count(q, SectionResult(n))

\* C8: once the sections are submitted no exception leaves parse_pdf; it
\* returns exactly the items of the sections that succeeded, each as often
\* as they hold it, and every section has been processed.
C8_SectionFailuresContained ==
    FannedOut =>
        /\ p_out.kind # "raise"
        /\ ParseDone =>
              /\ p_out.kind = "list"
              /\ \A i \in DOMAIN p_worker : p_worker[i] = "collected"
              /\ \A i \in DOMAIN p_out.v :
                     Count(p_out.v[i], p_out.v) =
                         CountInSections(p_out.v[i], Len(p_doc.sections))
              /\ \A k \in DOMAIN p_doc.sections :
                     \A i \in DOMAIN SectionResult(k) :
                         Count(SectionResult(k)[i], p_out.v) =
                             CountInSections(SectionResult(k)[i],
                                             Len(p_doc.sections))

\* C8 witness: two sections, one whose worker raised and one that yields
\* three items; parse_pdf returned exactly three items.
C8_Witness ==
    /\ ParseDone
    /\ FannedOut
    /\ Len(p_future) = 2
    /\ p_future[1].raised
    /\ Len(p_future[2].v) = 3
    /\ p_out.kind = "list"
    /\ Len(p_out.v) = 3

\* C9: the list returned is the per-section results joined by ascending
\* section index, whatever the order in which the workers completed, and
\* nothing is joined before every section has completed.
C9_ResultsInSectionOrder ==
    /\ (FannedOut /\ ParseDone) =>
          p_out.v = Extend([i \in 1..Len(p_doc.sections) |-> i],
                           [i \in 1..Len(p_doc.sections) |-> SectionResult(i)])
    /\ (p_all # <<>> \/ (FannedOut /\ ParseDone)) =>
          \A i \in DOMAIN p_worker : p_worker[i] = "collected"

\* C9 witness: the second section completed and was collected before the
\* first, both with items, and the call has returned.
C9_Witness ==
    /\ ParseDone
    /\ Len(p_order) >= 2
    /\ p_order[1] = 2
    /\ p_order[2] = 1
    /\ p_results[1] # <<>>
    /\ p_results[2] # <<>>
    /\ p_results[1] # p_results[2]

----------------------------------------------------------------------------
(* Claims about parse_answer_pdf                                           *)

\* C5: parse_answer_pdf never raises for malformed content: bytes that are
\* no PDF and fallback items with a non-numeric id give a list.
C5_AnswerPdfNeverRaises == a_pc = "done" => a_out.kind = "list"

----------------------------------------------------------------------------
(* Claims about the retry policy of _call_openai_with_retry                *)

\* C11: a call whose every attempt fails with a rate-limit error gives up
\* only after _RATE_LIMIT_MAX_RETRIES attempts, more than the
\* _MAX_API_RETRIES attempts of generic transient errors.
C11_RateLimitCeiling ==
    (/\ r_pc = "done"
     /\ r_log # <<>>
     /\ \A i \in DOMAIN r_log : r_log[i].kind = "ratelimit")
        => /\ Len(r_log) = _RATE_LIMIT_MAX_RETRIES
           /\ Len(r_log) > _MAX_API_RETRIES

\* Errors that are not transient: an unexpected exception, or an APIError
\* without a 5xx status whose message names no timeout and no
\* connectivity or availability failure.
NonTransient(e) ==
    \/ e.kind = "other"
    \/ /\ e.kind = "api"
       /\ e.status \notin TransientStatus
       /\ e.word \notin {"timeout", "connection", "unavailable"}

\* C18: a non-transient error is the last thing the call does: no attempt
\* and no backoff sleep follows it, and the call returns None.
C18_NonTransientAborts ==
    \A i \in DOMAIN r_log :
        NonTransient(r_log[i]) =>
            /\ i = Len(r_log)
            /\ r_pc = "done"
            /\ r_result = "none"
            /\ Len(r_sleeps) < Len(r_log)

----------------------------------------------------------------------------
(* Claims about _parse_answer_table_deterministic                          *)

\* The subjects whose header the text holds.
TableSubjects == FoundSubjects(t_text, SubjectNames)

\* The ids are exactly 1, 2, ..., n in this order.
GaplessFromOne(ids) == \A i \in DOMAIN ids : ids[i] = i

\* C12: every run returns the empty list or a table in which the ids of
\* every subject are exactly 1, 2, ..., n in order.
C12_TableAllOrNothing ==
    \A r \in DOMAIN t_runs :
        \/ t_runs[r].v = <<>>
        \/ \A k \in DOMAIN TableSubjects :
               GaplessFromOne(SubjectIds(t_runs[r].v, TableSubjects[k]))

\* C13: the text with the headers of two subjects and one interleaved row
\* parses into exactly 10 records, 5 per subject with the ids 1..5; one
\* complete row of k >= 2 subjects gives 5k records.
C13_OneRowParses ==
    \A r \in DOMAIN t_runs :
        \A k \in 2..3 :
            t_text = TableText(k, 1) =>
                /\ Len(t_runs[r].v) = 5 * k
                /\ \A j \in 1..k :
                       SubjectIds(t_runs[r].v, SubjectNames[j])
                           = <<1, 2, 3, 4, 5>>

\* C14: all runs on the same text return the same records in the same
\* order, whatever client was cached, whatever text the call before was
\* made on and whatever that call left in the locals.
C14_TableDeterministic ==
    \A i, j \in DOMAIN t_runs : t_runs[i].v = t_runs[j].v

\* C14 witness: two runs on a text that parses into a table, the first as
\* the first call of the process without a cached client, the second with
\* a cached client after a call on another text that returned records.
C14_Witness ==
    /\ t_pc = "done"
    /\ Len(t_runs) = 2
    /\ t_runs[1].v # <<>>
    /\ t_runs[1].client = NoClient
    /\ t_runs[1].prior = <<>>
    /\ t_runs[2].client # NoClient
    /\ t_runs[2].prior = RemainderText
    /\ t_text # RemainderText

----------------------------------------------------------------------------
(* Claims about _match_answer_to_option                                    *)

\* The option starts with the text, blanks in front of the option set aside.
OptionStarts(option, text) ==
    LET o == Strip(option) IN
    Len(text) <= Len(o) /\ SubSeq(o, 1, Len(text)) = text

IsOption(text, options) == \E i \in DOMAIN options : options[i] = text

\* The decimal numbers that have a circled glyph, and their glyphs.
GlyphOf(d) ==
    <<<<"c1">>, <<"c2">>, <<"c3">>, <<"c4">>, <<"c5">>, <<"c6">>, <<"c7">>,
      <<"c8">>, <<"c9">>, <<"c10">>>>[d]

\* C15: a raw token that is the digit d of 1..10, equals no option and
\* starts no option, is resolved through the glyph of d: to the glyph
\* itself when it is an option, else to the first option the glyph starts.
\* A token that equals an option is returned as it is, and one that only
\* starts options gives the first of them: both come before the glyph.
C15_DigitResolvesThroughGlyph ==
    n_pc = "done" =>
      /\ (n_answer.t = "str" /\ n_answer.s # <<>>
             /\ Strip(n_answer.s) = n_answer.s) =>
            /\ IsOption(n_answer.s, n_options) => n_out = Ok(n_answer.s)
            /\ (/\ ~IsOption(n_answer.s, n_options)
                /\ \E i \in DOMAIN n_options :
                       OptionStarts(n_options[i], n_answer.s)) =>
                   \E i \in DOMAIN n_options :
                       /\ n_out = Ok(n_options[i])
                       /\ OptionStarts(n_options[i], n_answer.s)
                       /\ \A j \in 1..(i - 1) :
                              ~OptionStarts(n_options[j], n_answer.s)
      /\ \A d \in 1..10 :
            LET g == GlyphOf(d) IN
            (/\ n_answer = StrV(IntToStr(d))
             /\ ~IsOption(n_answer.s, n_options)
             /\ \A i \in DOMAIN n_options :
                    ~OptionStarts(n_options[i], n_answer.s)
             /\ \E i \in DOMAIN n_options : OptionStarts(n_options[i], g))
                => /\ ~n_out.raised
                   /\ IsOption(g, n_options) => n_out.v = g
                   /\ ~IsOption(g, n_options) =>
                          \E i \in DOMAIN n_options :
                              /\ n_out.v = n_options[i]
                              /\ OptionStarts(n_options[i], g)
                              /\ \A j \in 1..(i - 1) :
                                     ~OptionStarts(n_options[j], g)

\* C15 witness: the token "2" matched against the options "c1 A", "c2 B"
\* gave "c2 B".
C15_Witness ==
    /\ n_pc = "done"
    /\ n_answer = StrV(<<"2">>)
    /\ n_options = TwoOptions
    /\ n_out = Ok(sB)

----------------------------------------------------------------------------
(* Claims about the items the validator drops                              *)

\* The item has no question text (key absent, null or blank) or no options.
MissingFields(item) ==
    \/ item.question_text.t \in {"absent", "none"}
    \/ item.question_text.t = "str" /\ Strip(item.question_text.s) = <<>>
    \/ ~Truthy(item.options)

\* C16: a response whose items miss their question text or their options
\* is validated without raising; those items are not in the output and
\* every valid item of the response is.
C16_MissingFieldsDropped ==
    (v_pc = "done" /\ v_resp.form \in ListForms) =>
        /\ v_out.kind = "list"
        /\ \A i \in DOMAIN v_resp.items :
              /\ MissingFields(v_resp.items[i]) =>
                     \A j \in DOMAIN v_out.questions :
                         v_out.questions[j].id # v_resp.items[i].id.n
              /\ v_resp.items[i] = KeptSibling =>
                     \E j \in DOMAIN v_out.questions :
                         /\ v_out.questions[j].id = 2
                         /\ v_out.questions[j].page_number = 3

----------------------------------------------------------------------------
(* Claims about the cached client                                          *)

\* C17: after a change of the key, _get_client() never returns a client
\* that was cached before the change; the client it returns was built from
\* the current key, and the first call after the change constructs it.
C17_KeyChangeInvalidatesClient ==
    (k_pc = "run" /\ ~k_changed /\ k_ret.client # NoClient) =>
        /\ k_ret.id \notin k_old
        /\ k_ret.client = g_key
        /\ k_ret.first => k_ret.fresh

\* C17 witness: a client built from k1 was cached, the key was changed to
\* k2, and the next _get_client() call constructed a second client.
C17_Witness ==
    /\ k_old = {1}
    /\ ~k_changed
    /\ g_key = "k2"
    /\ k_ret = [client |-> "k2", id |-> 2, fresh |-> TRUE, first |-> TRUE]

----------------------------------------------------------------------------
(* Claims about the second model call                                      *)

\* The sections whose worker has run _extract_questions_from_text.
Extracted == {i \in DOMAIN p_worker : p_worker[i] \in {"done", "collected"}}

\* The call brought back a response that does not parse into a list.
FailsToParse(call) ==
    call.got /\ _parse_response_to_questions(call.resp).kind = "none"

\* C19: a section makes a second model call exactly when its first call
\* returned a response that does not parse; it never makes a third; when
\* the second response is absent or does not parse either the section
\* yields []; a first call without result yields [] and no second call.
C19_SecondCallOnParseFailure ==
    \A i \in Extracted :
        LET sec == p_doc.sections[i]
            f == p_future[i]
        IN  /\ f.calls \in {1, 2}
            /\ f.calls = 2 <=> FailsToParse(sec.first)
            /\ (f.calls = 2 /\ (~sec.second.got \/ FailsToParse(sec.second)))
                  => (f.v = <<>> /\ ~f.raised)
            /\ ~sec.first.got => (f.calls = 1 /\ f.v = <<>> /\ ~f.raised)

\* C19 witness: a section whose two responses both failed to parse made
\* two calls and parse_pdf returned no questions.
C19_Witness ==
    /\ ParseDone
    /\ FannedOut
    /\ p_doc.sections = <<[first |-> Got(BadJson), second |-> Got(BadJson)]>>
    /\ p_future[1].calls = 2
    /\ p_out = Returned(<<>>)

\* The call brought back a response that is no valid JSON: no JSON text at
\* all, or text that json.loads rejects.
NotJson(call) == call.got /\ call.resp.form \in {"empty", "text", "badjson"}

\* The model calls the first n sections of the answer document need when
\* every response that is no valid JSON is followed by a second call.
RECURSIVE AnswerCallsDue(_, _)
AnswerCallsDue(sections, n) ==
    IF n = 0 THEN 0
    ELSE AnswerCallsDue(sections, n - 1)
         + (IF NotJson(sections[n].first) THEN 2 ELSE 1)

\* C20: in the answer-key fallback a section whose first response is no
\* valid JSON gets a second model call before it is given up.
C20_AnswerSecondCall ==
    a_pc = "sections" => a_calls = AnswerCallsDue(a_doc.sections, a_idx - 1)

----------------------------------------------------------------------------
(* Claims about the two paths of parse_answer_pdf                          *)

\* What the deterministic parser makes of the answer document.
DetTable == _parse_answer_table_deterministic(a_doc.lines)

\* C21: when the deterministic parser returns a table, parse_answer_pdf
\* returns that table and makes no model call; model calls are made only
\* when the deterministic result is empty, so the two kinds of records are
\* never mixed.
C21_DeterministicFirst ==
    a_bytes = "pdf" =>
        /\ DetTable # <<>> =>
              /\ a_calls = 0
              /\ a_all = <<>>
              /\ a_pc = "done" => a_out = Returned(DetTable)
        /\ (a_calls > 0 \/ a_pc = "sections") => DetTable = <<>>

\* C21 witness: with a key at hand, a document holding a table was parsed
\* and the table returned without a model call.
C21_Witness ==
    /\ a_pc = "done"
    /\ a_bytes = "pdf"
    /\ g_key # NoKey
    /\ DetTable # <<>>
    /\ a_out = Returned(DetTable)
    /\ a_calls = 0

----------------------------------------------------------------------------
(* Claims about the lookup and the frame of merge_answers                  *)

\* The normalised subject of an answer record (a.get("subject", "")).
RecordSubject(a) == _normalize_subject(GetOr(a.subject, StrV(<<>>))).v

\* The records that have the id and the normalised subject of question q.
SameKeyRecords(answers, q) ==
    {j \in DOMAIN answers :
        /\ IdEquals(answers[j].id, q.id)
        /\ RecordSubject(answers[j]) = _normalize_subject(StrV(q.subject)).v}

\* The records that have the id of question q.
SameIdRecords(answers, q) ==
    {j \in DOMAIN answers : IdEquals(answers[j].id, q.id)}

\* C22: a Question that has a record with its normalised subject and its id
\* gets its answer from such a record, whatever other records carry the id
\* and whatever the order; only a Question without such a record gets a
\* record chosen by id alone, and one without any record of its id is
\* passed on as it is.
C22_CompositeKeyFirst ==
    MergeReturned =>
        \A i \in DOMAIN m_questions :
            LET q == m_questions[i]
                same == SameKeyRecords(m_answers, q)
                byId == SameIdRecords(m_answers, q)
            IN  IF same # {}
                THEN \E j \in same :
                         m_out.v[i] = MergeRecord(q, m_answers[j]).v
                ELSE IF byId # {}
                THEN \E j \in byId :
                         m_out.v[i] = MergeRecord(q, m_answers[j]).v
                ELSE m_out.v[i] = q

\* C23: the call leaves the fields of every input Question object as they
\* were; a Question with a record of its id appears in the output as a new
\* object that differs from the input in answer and explanation only, and
\* a Question without one appears as the input object itself, unchanged.
C23_InputsNotMutated ==
    [][(m_pc = "call" /\ m_pc' = "done") =>
          /\ \A i \in DOMAIN m_questions :
                 /\ i \in DOMAIN m_questions'
                 /\ m_questions'[i] = m_questions[i]
          /\ ~m_out'.raised =>
                \A i \in DOMAIN m_questions :
                    IF SameIdRecords(m_answers, m_questions[i]) = {}
                    THEN /\ m_refs'[i] = i
                         /\ m_out'.v[i] = m_questions'[i]
                    ELSE /\ m_refs'[i] = NewObject
                         /\ [m_out'.v[i] EXCEPT
                                !.answer = m_questions[i].answer,
                                !.explanation = m_questions[i].explanation]
                            = m_questions[i]]_vars

\* C23 witness: of two questions merged, the first found no record and came
\* out as the object that went in, the second came out as a new object
\* with a new answer and a new explanation while the input object still
\* holds the old ones.
C23_Witness ==
    /\ MergeReturned
    /\ Len(m_questions) = 2
    /\ SameIdRecords(m_answers, m_questions[1]) = {}
    /\ m_refs = <<1, NewObject>>
    /\ m_out.v[1] = m_questions[1]
    /\ m_out.v[2].answer # m_questions[2].answer
    /\ m_out.v[2].explanation # m_questions[2].explanation
    /\ m_questions[2].answer # <<>>

\* C27: the record merge_answers takes for a Question has no subject or the
\* normalised subject of the Question.
C27_SubjectsKeptApart ==
    MergeReturned =>
        \A i \in DOMAIN m_questions :
            LET info == LookupInfo(m_answers, m_questions[i])
            IN  info # 0 =>
                    \/ RecordSubject(m_answers[info]) = <<>>
                    \/ RecordSubject(m_answers[info])
                           = _normalize_subject(StrV(m_questions[i].subject)).v

----------------------------------------------------------------------------
(* Claims about the scanned-document test, answer normalisation and empty  *)
(* tokens                                                                  *)

\* C24: a document within the page limit whose pages hold fewer than 100
\* non-whitespace characters of text is never handed to the model, and a
\* call that has a client ends with the error for unextractable content;
\* the page markers do not count.
C24_ScannedDetection ==
    (p_bytes = "pdf" /\ p_doc.pages <= MAX_PDF_PAGES
                     /\ p_doc.text < ScanThreshold) =>
        /\ ~FannedOut
        /\ (ParseDone /\ p_out.msg # "client") =>
               p_out = Raised("ValueError", "scanned")

\* The item would be kept if it came without an answer.
OtherwiseValid(item) ==
    ParseItem([item EXCEPT !.answer = StrV(<<>>)]).op = "append"

\* The answer of the item is given (a string, a number or a list) and is
\* not literally one of the options the item lists.
AnswerNotVerbatim(item) ==
    /\ Truthy(item.answer)
    /\ item.options.t = "list"
    /\ ~(item.answer.t = "str" /\ InList(item.answer.s, item.options.l))

\* C25: an item that is valid but for an answer that is not literally one
\* of its options is in the validator's output, with one of its options or
\* the empty string as its answer.
C25_NonVerbatimAnswerKept ==
    (v_pc = "done" /\ v_out.kind = "list") =>
        \A i \in DOMAIN v_resp.items :
            (OtherwiseValid(v_resp.items[i])
                /\ AnswerNotVerbatim(v_resp.items[i])) =>
                \E j \in DOMAIN v_out.questions :
                    /\ v_out.questions[j].id = v_resp.items[i].id.n
                    /\ QuestionValid(v_out.questions[j])

\* C26: an empty or whitespace-only token resolves to the empty string
\* for every option list.
C26_BlankTokenUnknown ==
    (n_pc = "done" /\ n_answer.t = "str" /\ Strip(n_answer.s) = <<>>) =>
        n_out = Ok(<<>>)

----------------------------------------------------------------------------
(* Claims about key changes that overlap _get_client() calls               *)

\* C28: once reset_client() has returned after a change of the key, the
\* cached client is absent or was built from the current key, whatever
\* _get_client() calls ran beside the change.
C28_NoSupersededClientCached ==
    (x_pc = "idle" /\ x_changes > 0) => g_client \in {NoClient, g_key}

----------------------------------------------------------------------------
(* Claims about saved answers and the score                                *)

\* The questions the user answered correctly, by the option the user last
\* chose for each of them.
CorrectlyAnswered ==
    {i \in DOMAIN e_questions :
        /\ e_questions[i].answer # <<>>
        /\ e_given[i] = e_questions[i].answer}

\* C29: in an exam over several subjects the saved answer of every question
\* is the option the user last chose for that question, whatever was saved
\* for other questions, and the score counts a question as correct only
\* when the option chosen for that question is its answer.
C29_AnswersKeptApart ==
    e_pc \in {"exam", "result"} =>
        /\ \A i \in DOMAIN e_questions :
               SavedAnswer(e_questions, e_answers, i) = e_given[i]
        /\ e_pc = "result" =>
               e_score = RoundedScore(Cardinality(CorrectlyAnswered),
                                      Len(e_questions))

----------------------------------------------------------------------------
(* Claims about session expiry                                             *)

\* C30: get_session never returns a session whose last access was once
\* more than SESSION_TTL seconds in the past, whatever calls of
\* get_session, put, reset and cleanup_expired came after that moment.
C30_ExpiryIsFinal == ~(s_ret.found /\ s_ret.dead)


====
